---------------------------- MODULE Spec2Model ----------------------------
(***************************************************************************)
(* Model of the hiring-intake engine of ChromaMemory.                      *)
(*                                                                         *)
(* Part 1: the stage machine of app/services/stage_machine.py              *)
(* (REQUIRED, NEXT, _is_filled, missing_for_stage, next_stage and          *)
(* advance_until_stable).                                                  *)
(*                                                                         *)
(* Python values are tagged records: None, str (a sequence of one-char     *)
(* strings, so that strip() and lower() are computed), int/float, list,    *)
(* tuple and dict (a function from field names to values).  A slot set is  *)
(* a function from the keys it holds to values; dict.get is Get.           *)
(***************************************************************************)
EXTENDS Integers, Sequences, FiniteSets, TLC

VARIABLES
    slots,   \* the slot set the functions are applied to / the conversation holds
    stage,   \* the stage stored for the conversation
    hist,    \* the stages stored so far, oldest first (history of `stage`)
    call,    \* the last call of a pure function: its name, arguments and result
    pc,      \* position in advance_until_stable: "idle", "loop" or "done"
    cur,     \* advance_until_stable's local `cur`
    seen,    \* advance_until_stable's local `seen`
    iters,   \* number of passes through the body of `while True`
    rw,      \* the rewrite coroutine (rewriter.py): its position and its thread
    msgs,    \* _MSGS of memory_store.py: the stored rows, in insertion order
    cache,   \* chat_instructions_loader.py: _cache_text, _cache_expiry, _cache_lkg of the file
    clock,   \* time.time(), in ticks
    lock,    \* the asyncio.Lock of the file: held or not, and its queue of waiters
    procs,   \* the get_prompt_for coroutines: position and locals of each
    tasks,   \* the number of background _refresh tasks that run
    convs,   \* _CONVS of memory_store.py: conversation key -> record
    thr,     \* the threadpool threads that serve the memory endpoints
    reqs     \* request_scope.py: _requests, _thread_active, _thread_index

\* the state of the services around the core
svc == <<rw, msgs, cache, clock, lock, procs, tasks, convs, thr, reqs>>

vars == <<slots, stage, hist, call, pc, cur, seen, iters, svc>>

-----------------------------------------------------------------------------
(* Bounds of the model.                                                    *)

\* longest list enumerated for the stack slot
MaxStack == 1
\* cap on the passes of the while loop the model follows
MaxIters == 7
\* number of turns of one conversation the model follows
MaxTurns == 4

-----------------------------------------------------------------------------
(* Python values.                                                          *)

NoneV == [t |-> "none"]
StrV(s) == [t |-> "str", s |-> s]
NumV(n) == [t |-> "num", n |-> n]
ListV(l) == [t |-> "list", l |-> l]
TupleV(l) == [t |-> "tuple", l |-> l]
DictV(m) == [t |-> "dict", m |-> m]

\* dict.get(key): the value, or None when the key is absent
Get(m, k) == IF k \in DOMAIN m THEN m[k] ELSE NoneV

\* Python truthiness, bool(v)
Truthy(v) ==
    CASE v.t = "none"  -> FALSE
      [] v.t = "str"   -> v.s # <<>>
      [] v.t = "num"   -> v.n # 0
      [] v.t = "list"  -> v.l # <<>>
      [] v.t = "tuple" -> v.l # <<>>
      [] v.t = "dict"  -> DOMAIN v.m # {}

Whitespace == {" ", "\t", "\n"}

RECURSIVE LStrip(_)
LStrip(s) ==
    IF s = <<>> THEN s
    ELSE IF Head(s) \in Whitespace THEN LStrip(Tail(s)) ELSE s

RECURSIVE RStrip(_)
RStrip(s) ==
    IF s = <<>> THEN s
    ELSE IF s[Len(s)] \in Whitespace THEN RStrip(SubSeq(s, 1, Len(s) - 1)) ELSE s

\* str.strip()
Strip(s) == RStrip(LStrip(s))

UpperChars == <<"A","B","C","D","E","F","G","H","I","J","K","L","M",
                "N","O","P","Q","R","S","T","U","V","W","X","Y","Z">>
LowerChars == <<"a","b","c","d","e","f","g","h","i","j","k","l","m",
                "n","o","p","q","r","s","t","u","v","w","x","y","z">>

LowerChar(c) ==
    IF \E i \in 1..Len(UpperChars) : UpperChars[i] = c
    THEN LowerChars[CHOOSE i \in 1..Len(UpperChars) : UpperChars[i] = c]
    ELSE c

\* str.lower()
Lower(s) == [i \in 1..Len(s) |-> LowerChar(s[i])]

-----------------------------------------------------------------------------
(* stage_machine.py                                                        *)

STAGES == <<"collect", "enrich", "match", "schedule", "close">>

StageSet == {STAGES[i] : i \in 1..Len(STAGES)}

\* `x in STAGES`
InStages(s) == s \in StageSet

\* REQUIRED.get(s, [])
REQUIRED(s) ==
    CASE s = "collect"  -> <<"role_title">>
      [] s = "enrich"   -> <<"budget", "location", "seniority", "stack">>
      [] s = "match"    -> <<"candidates">>
      [] s = "schedule" -> <<"candidate_id", "timeslot">>
      [] s = "close"    -> <<>>
      [] OTHER          -> <<>>

\* NEXT with the entry of enrich pointing one stage too far
NEXT_skips(s) ==
    CASE s = "collect"  -> "enrich"
      [] s = "enrich"   -> "schedule"
      [] s = "match"    -> "schedule"
      [] s = "schedule" -> "close"
      [] s = "close"    -> "close"
      [] OTHER          -> "collect"

\* NEXT with close wrapping around to collect
NEXT_wraps(s) ==
    CASE s = "collect"  -> "enrich"
      [] s = "enrich"   -> "match"
      [] s = "match"    -> "schedule"
      [] s = "schedule" -> "close"
      [] s = "close"    -> "collect"
      [] OTHER          -> "collect"

\* NEXT.get(s, "collect")
NEXT(s) ==
    CASE s = "collect"  -> "enrich"
      [] s = "enrich"   -> "match"
      [] s = "match"    -> "schedule"
      [] s = "schedule" -> "close"
      [] s = "close"    -> "close"
      [] OTHER          -> "collect"

\* _filled_budget that forgets the raw string
_filled_budget_no_raw(v) ==
    IF ~Truthy(v) THEN FALSE
    ELSE IF v.t = "dict"
         THEN \/ Get(v.m, "min") # NoneV
              \/ Get(v.m, "max") # NoneV
         ELSE \/ v.t = "num"
              \/ (v.t = "str" /\ Strip(v.s) # <<>>)

_filled_budget(v) ==
    IF ~Truthy(v) THEN FALSE
    ELSE IF v.t = "dict"
         THEN \/ Get(v.m, "min") # NoneV
              \/ Get(v.m, "max") # NoneV
              \/ Truthy(Get(v.m, "raw"))
         ELSE \/ v.t = "num"
              \/ (v.t = "str" /\ Strip(v.s) # <<>>)

_filled_simple(v) ==
    IF v.t = "none" THEN FALSE
    ELSE IF v.t = "str" THEN Strip(v.s) # <<>>
    ELSE IF v.t \in {"list", "tuple"} THEN Len(v.l) > 0
    ELSE TRUE

_is_filled(key, sl) ==
    LET v == Get(sl, key) IN
    IF key = "budget" THEN _filled_budget(v)
    ELSE IF key \in {"stack"}
         THEN IF v.t = "list" THEN Len(v.l) > 0 ELSE _filled_simple(v)
    ELSE _filled_simple(v)

\* "contract" as a str
S_contract == <<"c","o","n","t","r","a","c","t">>

\* (slots.get("employment_type") or ""), employment_type being a str or None
OrEmpty(v) == IF Truthy(v) THEN v.s ELSE <<>>

\* _dynamic_required comparing employment_type without lower()
_dynamic_required_cased(s, sl) ==
    IF s = "enrich"
    THEN LET et == Strip(OrEmpty(Get(sl, "employment_type"))) IN
         IF et = S_contract /\ ~_is_filled("duration", sl)
         THEN <<"duration">> ELSE <<>>
    ELSE <<>>

_dynamic_required(s, sl) ==
    IF s = "enrich"
    THEN LET et == Lower(Strip(OrEmpty(Get(sl, "employment_type")))) IN
         IF et = S_contract /\ ~_is_filled("duration", sl)
         THEN <<"duration">> ELSE <<>>
    ELSE <<>>

\* list(dict.fromkeys(xs)): drop later duplicates, keep order
RECURSIVE Dedupe(_)
Dedupe(xs) ==
    IF xs = <<>> THEN <<>>
    ELSE LET init == Dedupe(SubSeq(xs, 1, Len(xs) - 1))
             last == xs[Len(xs)]
         IN IF \E i \in 1..Len(init) : init[i] = last THEN init
            ELSE Append(init, last)

\* [k for k in xs if P(k)]
RECURSIVE KeepUnfilled(_, _)
KeepUnfilled(xs, sl) ==
    IF xs = <<>> THEN <<>>
    ELSE IF ~_is_filled(Head(xs), sl)
         THEN <<Head(xs)>> \o KeepUnfilled(Tail(xs), sl)
         ELSE KeepUnfilled(Tail(xs), sl)

missing_for_stage(s, sl) ==
    LET st     == IF InStages(s) THEN s ELSE "collect"
        base   == REQUIRED(st)
        dyn    == _dynamic_required(st, sl)
        needed == Dedupe(base \o dyn)
    IN KeepUnfilled(needed, sl)

\* next_stage without the fallback of an unrecognized stage to collect
next_stage_raw(current, sl) ==
    IF missing_for_stage(current, sl) # <<>> THEN current ELSE NEXT(current)

next_stage(current, sl) ==
    LET c == IF InStages(current) THEN current ELSE "collect" IN
    IF missing_for_stage(c, sl) # <<>> THEN c ELSE NEXT(c)

\* the while loop of advance_until_stable from local state (c, sn)
RECURSIVE AdvanceLoop(_, _, _)
AdvanceLoop(c, sn, sl) ==
    IF c \in sn THEN c
    ELSE LET nxt == next_stage(c, sl) IN
         IF nxt = c THEN c ELSE AdvanceLoop(nxt, sn \cup {c}, sl)

\* advance_until_stable taking one hop only
advance_one_hop(current, sl) == next_stage(current, sl)

advance_until_stable(current, sl) ==
    AdvanceLoop(IF InStages(current) THEN current ELSE "collect", {}, sl)

-----------------------------------------------------------------------------
(* The inputs the model draws.                                             *)

\* str literals
S_blank     == <<" ", " ">>
S_qa        == <<"q","a">>
S_pune      == <<"P","u","n","e">>
S_mid       == <<"m","i","d">>
S_python    == <<"p","y","t","h","o","n">>
S_permanent == <<"p","e","r","m","a","n","e","n","t">>
S_Contract  == <<" ","C","o","n","t","r","a","c","t"," ">>
S_months    == <<"6"," ","m","o","n","t","h","s">>
S_raw       == <<"$","2","5","/","h","r">>
S_usd       == <<"$">>
S_c1        == <<"c","1">>
S_slot      == <<"1","0","a","m">>

\* the slot keys the stage machine reads
Keys == <<"role_title", "location", "budget", "seniority", "stack",
          "employment_type", "duration", "candidates", "candidate_id",
          "timeslot">>

\* lists of at most n stack tokens
RECURSIVE StackLists(_)
StackLists(n) ==
    IF n = 0 THEN {<<>>}
    ELSE LET shorter == StackLists(n - 1) IN
         shorter \cup {Append(l, StrV(S_python)) : l \in {x \in shorter : Len(x) = n - 1}}

\* the values a key takes when it is present in an enumerated slot set
SlotValues(k) ==
    CASE k = "role_title"      -> {StrV(S_qa)}
      [] k = "location"        -> {StrV(S_pune)}
      [] k = "budget"          -> {DictV([raw |-> StrV(S_raw)])}
      [] k = "seniority"       -> {StrV(S_mid)}
      [] k = "stack"           -> {ListV(l) : l \in StackLists(MaxStack)}
      [] k = "employment_type" -> {StrV(S_permanent), StrV(S_Contract)}
      [] k = "duration"        -> {StrV(S_months)}
      [] k = "candidates"      -> {ListV(<<StrV(S_c1)>>)}
      [] k = "candidate_id"    -> {StrV(S_c1)}
      [] k = "timeslot"        -> {StrV(S_slot)}

\* {} as a dict
EmptyDict == [x \in {} |-> NoneV]

\* d[k] = v
Put(d, k, v) == [x \in DOMAIN d \cup {k} |-> IF x = k THEN v ELSE d[x]]

\* every dict over the keys ks: each key absent or holding one of V[key]
RECURSIVE BuildDicts(_, _)
BuildDicts(ks, V) ==
    IF ks = <<>> THEN {EmptyDict}
    ELSE LET rest == BuildDicts(Tail(ks), V) IN
         rest \cup {Put(d, Head(ks), v) : d \in rest, v \in V[Head(ks)]}

\* the slot sets the stage machine is applied to
SlotSets == BuildDicts(Keys, [k \in {Keys[i] : i \in 1..Len(Keys)} |-> SlotValues(k)])

BudgetFields == <<"min", "max", "raw", "currency">>

\* the values a field of an enumerated budget record takes when present
BudgetFieldValues(f) ==
    CASE f = "min"      -> {NoneV, NumV(0), NumV(18)}
      [] f = "max"      -> {NoneV, NumV(0), NumV(22)}
      [] f = "raw"      -> {NoneV, StrV(<<>>), StrV(S_raw)}
      [] f = "currency" -> {StrV(S_usd)}

\* the values one slot is given when _is_filled is examined on its own
RichValues ==
    {NoneV, StrV(<<>>), StrV(S_blank), StrV(S_qa), NumV(0), NumV(18),
     ListV(<<>>), ListV(<<StrV(S_python)>>),
     TupleV(<<>>), TupleV(<<StrV(S_python)>>)}
    \cup {DictV(m) : m \in BuildDicts(BudgetFields,
                                       [f \in {BudgetFields[i] : i \in 1..Len(BudgetFields)}
                                          |-> BudgetFieldValues(f)])}

\* the keys _is_filled is examined on: budget, stack and two plain slots
FilledKeys == {"budget", "stack", "location", "candidates"}

\* slot sets holding at most one key
OneSlotSets ==
    {EmptyDict} \cup {Put(EmptyDict, k, v) : k \in FilledKeys, v \in RichValues}

\* stage arguments: the five stages and two unrecognized strings
StageInputs == StageSet \cup {"weird", "Collect"}

-----------------------------------------------------------------------------
(* Calls of the public functions on an enumerated slot set.                *)

NoCall == [op |-> "none"]

Idle == pc = "idle" /\ cur = "collect" /\ seen = {} /\ iters = 0

\* no rewrite is in progress
NoRewrite == [pc |-> "none"]

\* no prompt is cached and no call of the loader is in progress
NoPrompt == "(absent)"

MaxCallers == 2

LoaderCold ==
    /\ cache = [text |-> NoPrompt, expiry |-> 0, lkg |-> NoPrompt]
    /\ clock = 0
    /\ lock = [held |-> FALSE, waiters |-> <<>>]
    /\ procs = [p \in 1..MaxCallers |-> [pc |-> "idle"]]
    /\ tasks = 0

\* bound: threadpool threads that serve requests at the same time
MaxThreads == 2

\* no conversation, no request in a thread, no request scope
StoreCold ==
    /\ convs = [k \in {} |-> NoneV]
    /\ thr = [t \in 1..MaxThreads |-> [pc |-> "idle"]]
    /\ reqs = [requests |-> [r \in {} |-> NoneV],
               active |-> [t \in {} |-> NoneV],
               index |-> [t \in {} |-> <<>>]]

Quiet == rw = NoRewrite /\ msgs = <<>> /\ LoaderCold /\ StoreCold

Init ==
    /\ slots \in SlotSets
    /\ stage = "collect"
    /\ hist = <<"collect">>
    /\ call = NoCall
    /\ Idle
    /\ Quiet

CallMissingForStage(s) ==
    /\ call' = [op |-> "missing_for_stage", stage |-> s,
                result |-> missing_for_stage(s, slots)]
    /\ UNCHANGED <<slots, stage, hist, pc, cur, seen, iters, svc>>

CallNextStage(s) ==
    /\ call' = [op |-> "next_stage", stage |-> s,
                result |-> next_stage(s, slots)]
    /\ UNCHANGED <<slots, stage, hist, pc, cur, seen, iters, svc>>

CallAdvance(s) ==
    /\ call' = [op |-> "advance_until_stable", stage |-> s,
                result |-> advance_until_stable(s, slots)]
    /\ UNCHANGED <<slots, stage, hist, pc, cur, seen, iters, svc>>

\* b = advance_until_stable(a, slots) right after a = advance_until_stable(s, slots)
CallAdvanceAgain ==
    /\ call.op = "advance_until_stable"
    /\ call' = [op |-> "advance_until_stable_again", start |-> call.stage,
                stage |-> call.result,
                result |-> advance_until_stable(call.result, slots)]
    /\ UNCHANGED <<slots, stage, hist, pc, cur, seen, iters, svc>>

Next ==
    \/ \E s \in StageInputs : CallMissingForStage(s)
    \/ \E s \in StageInputs : CallNextStage(s)
    \/ \E s \in StageInputs : CallAdvance(s)
    \/ CallAdvanceAgain

Spec == Init /\ [][Next]_vars

-----------------------------------------------------------------------------
(* Turns of one conversation: the stage starts at collect and each turn    *)
(* stores advance_until_stable(previous stage, current slot set).  The     *)
(* slot set of a turn is the input sl of Turn; hist keeps the stored       *)
(* stages.                                                                 *)

TurnInit ==
    /\ slots = EmptyDict
    /\ stage = "collect"
    /\ hist = <<"collect">>
    /\ call = NoCall
    /\ Idle
    /\ Quiet

Turn(sl) ==
    /\ Len(hist) <= MaxTurns
    /\ stage' = advance_until_stable(stage, sl)
    /\ hist' = Append(hist, stage')
    /\ UNCHANGED <<slots, call, pc, cur, seen, iters, svc>>

TurnNext == \E sl \in SlotSets : Turn(sl)

TurnSpec == TurnInit /\ [][TurnNext]_vars

-----------------------------------------------------------------------------
(* advance_until_stable, one pass of its while loop at a time.             *)

LoopInit ==
    /\ slots = EmptyDict
    /\ stage = "collect"
    /\ hist = <<"collect">>
    /\ call = NoCall
    /\ Idle
    /\ Quiet

\* advance_until_stable(s, sl) is called:
\* seen = set(); cur = current if current in STAGES else "collect"
Enter(s, sl) ==
    /\ pc = "idle"
    /\ slots' = sl
    /\ call' = [op |-> "advance_until_stable", stage |-> s]
    /\ seen' = {}
    /\ cur' = IF InStages(s) THEN s ELSE "collect"
    /\ iters' = 0
    /\ pc' = "loop"
    /\ UNCHANGED <<stage, hist, svc>>

\* one pass of the body of `while True`
Step ==
    /\ pc = "loop"
    /\ iters < MaxIters
    /\ iters' = iters + 1
    /\ IF cur \in seen
       THEN pc' = "done" /\ UNCHANGED <<cur, seen>>
       ELSE LET nxt == next_stage(cur, slots) IN
            /\ seen' = seen \cup {cur}
            /\ IF nxt = cur
               THEN pc' = "done" /\ cur' = cur
               ELSE pc' = "loop" /\ cur' = nxt
    /\ UNCHANGED <<slots, stage, hist, call, svc>>

\* the call has returned `cur`; its frame is dropped
Return ==
    /\ pc = "done"
    /\ slots' = EmptyDict
    /\ call' = NoCall
    /\ pc' = "idle" /\ cur' = "collect" /\ seen' = {} /\ iters' = 0
    /\ UNCHANGED <<stage, hist, svc>>

LoopNext ==
    \/ pc = "idle" /\ \E s \in StageInputs, sl \in SlotSets : Enter(s, sl)
    \/ Step
    \/ Return

LoopSpec == LoopInit /\ [][LoopNext]_vars

-----------------------------------------------------------------------------
(* _is_filled on one slot at a time, over every kind of value.             *)

FilledInit ==
    /\ slots \in OneSlotSets
    /\ stage = "collect"
    /\ hist = <<"collect">>
    /\ call = NoCall
    /\ Idle
    /\ Quiet

CallIsFilled(k) ==
    /\ call' = [op |-> "_is_filled", key |-> k, result |-> _is_filled(k, slots)]
    /\ UNCHANGED <<slots, stage, hist, pc, cur, seen, iters, svc>>

FilledNext == \E k \in FilledKeys : CallIsFilled(k)

FilledSpec == FilledInit /\ [][FilledNext]_vars

-----------------------------------------------------------------------------
(* The fixed order of the stages, as the properties state it.              *)

StageIdx(s) == CHOOSE i \in 1..Len(STAGES) : STAGES[i] = s

\* an unrecognized stage counts as collect
Norm(s) == IF s \in StageSet THEN s ELSE "collect"

\* collect -> enrich -> match -> schedule -> close -> close
FixedSuccessor(s) ==
    IF StageIdx(s) < Len(STAGES) THEN STAGES[StageIdx(s) + 1] ELSE s

Filled(k) == _is_filled(k, slots)

CollectKeys == <<"role_title", "location", "budget">>
EnrichKeys == {"budget", "location", "seniority", "stack"}

\* employment_type reads "contract", whatever its case and padding
ContractType ==
    LET v == Get(slots, "employment_type") IN
    v.t = "str" /\ Lower(Strip(v.s)) = S_contract

Range(xs) == {xs[i] : i \in 1..Len(xs)}

-----------------------------------------------------------------------------
(* Properties of the stage machine.                                        *)

\* C1: next_stage(s, slots) returns s (an unrecognized s counting as
\* collect) or the fixed successor of s; never a predecessor, never a skip.
C1_NextStageStaysOrSucceeds ==
    call.op = "next_stage" =>
        LET c == Norm(call.stage)
            r == call.result
        IN /\ r \in StageSet
           /\ r \in {c, FixedSuccessor(c)}
           /\ StageIdx(r) >= StageIdx(c)
           /\ StageIdx(r) <= StageIdx(c) + 1

C1_Witness ==
    /\ call.op = "next_stage"
    /\ call.stage = "enrich"
    /\ call.result = "match"

\* C2: over the turns of a conversation that starts at collect and stores
\* advance_until_stable(previous stage, slot set of the turn) at each turn,
\* the stored stage never moves to an earlier stage.
C2_StoredStageNeverRegresses ==
    /\ hist[1] = "collect"
    /\ stage = hist[Len(hist)]
    /\ \A i \in 1..(Len(hist) - 1) :
          /\ hist[i + 1] \in StageSet
          /\ StageIdx(hist[i]) <= StageIdx(hist[i + 1])

C2_Witness ==
    /\ stage = "close"
    /\ \E i \in 1..(Len(hist) - 1) : hist[i] = "enrich" /\ hist[i + 1] = "enrich"
    /\ \E i \in 1..(Len(hist) - 1) : hist[i] = "enrich" /\ hist[i + 1] = "schedule"

\* C3: missing_for_stage("collect", slots) is exactly the unfilled keys among
\* role_title, location, budget, in that order.
C3_MissingCollectThreeKeys ==
    (call.op = "missing_for_stage" /\ call.stage = "collect") =>
        call.result = KeepUnfilled(CollectKeys, slots)

\* C4: next_stage("collect", slots) is collect while any of role_title,
\* location, budget is unfilled and enrich once all three are filled.
C4_CollectNeedsAllThree ==
    (call.op = "next_stage" /\ call.stage = "collect") =>
        call.result = IF \A k \in Range(CollectKeys) : Filled(k)
                      THEN "enrich" ELSE "collect"

\* C5: with employment_type contract and duration unfilled, neither
\* next_stage("enrich") nor advance_until_stable from collect or enrich goes
\* past enrich; with duration and the four enrich slots filled the stage
\* advances to match; without contract, duration is never required.
C5_ContractNeedsDuration ==
    /\ (ContractType /\ ~Filled("duration")) =>
          /\ (call.op = "next_stage" /\ call.stage = "enrich")
                => call.result = "enrich"
          /\ (call.op = "advance_until_stable" /\ call.stage \in {"collect", "enrich"})
                => call.result \in {"collect", "enrich"}
          /\ (call.op = "missing_for_stage" /\ call.stage = "enrich")
                => "duration" \in Range(call.result)
    /\ (ContractType /\ Filled("duration") /\ \A k \in EnrichKeys : Filled(k)) =>
          /\ (call.op = "next_stage" /\ call.stage = "enrich")
                => call.result = "match"
          /\ (call.op = "advance_until_stable" /\ call.stage = "enrich")
                => /\ StageIdx(call.result) >= StageIdx("match")
                   /\ ~Filled("candidates") => call.result = "match"
          /\ (call.op = "advance_until_stable" /\ call.stage = "collect"
                 /\ Filled("role_title"))
                => /\ StageIdx(call.result) >= StageIdx("match")
                   /\ ~Filled("candidates") => call.result = "match"
    /\ ~ContractType =>
          /\ call.op = "missing_for_stage"
                => "duration" \notin Range(call.result)
          /\ (call.op = "next_stage" /\ call.stage = "enrich"
                 /\ \A k \in EnrichKeys : Filled(k))
                => call.result = "match"

C5_Witness ==
    /\ ContractType /\ ~Filled("duration")
    /\ Filled("role_title") /\ \A k \in EnrichKeys : Filled(k)
    /\ call.op = "advance_until_stable"
    /\ call.stage = "collect"
    /\ call.result = "enrich"

C7_AdvanceIdempotent ==
    /\ call.op = "advance_until_stable" => call.result \in StageSet
    /\ call.op = "advance_until_stable_again" =>
          /\ call.result = call.stage
          /\ call.result \in StageSet

C7_Witness ==
    /\ call.op = "advance_until_stable_again"
    /\ call.start = "weird"
    /\ call.stage = "match"
    /\ call.result = "match"

LoopMatchesOperator ==
    pc = "done" => cur = advance_until_stable(call.stage, slots)

\* C9: a stage outside the five is treated as collect by missing_for_stage,
\* next_stage and advance_until_stable: each returns what it returns for
\* "collect" on the same slots, a proper result and no failure.
C9_UnknownStageIsCollect ==
    (call.op # "none" /\ call.stage \notin StageSet) =>
        /\ call.op = "missing_for_stage" =>
              /\ call.result = missing_for_stage("collect", slots)
              /\ Range(call.result) \subseteq Range(REQUIRED("collect"))
        /\ call.op = "next_stage" =>
              /\ call.result = next_stage("collect", slots)
              /\ call.result \in {"collect", "enrich"}
        /\ call.op = "advance_until_stable" =>
              /\ call.result = advance_until_stable("collect", slots)
              /\ call.result \in StageSet

C9_Witness ==
    /\ call.op = "advance_until_stable"
    /\ call.stage = "weird"
    /\ call.result = "match"

\* a sub-field of a budget record is present: it holds something other than None
Present(m, f) == Get(m, f) # NoneV

\* a value is non-null, non-blank and non-empty
NonNullNonBlankNonEmpty(v) ==
    /\ v.t # "none"
    /\ v.t = "str" => Strip(v.s) # <<>>
    /\ v.t \in {"list", "tuple"} => Len(v.l) > 0
    /\ v.t = "dict" => DOMAIN v.m # {}

\* C10 as stated: budget is filled exactly when one of its sub-fields min, max
\* or raw is present; stack and any other slot exactly when the value is
\* non-null, non-blank and non-empty.
C10_FilledAsStated ==
    call.op = "_is_filled" =>
        LET v == Get(slots, call.key) IN
        call.result =
            IF call.key = "budget"
            THEN /\ v.t = "dict"
                 /\ \/ Present(v.m, "min")
                    \/ Present(v.m, "max")
                    \/ (Present(v.m, "raw") /\ Truthy(Get(v.m, "raw")))
            ELSE NonNullNonBlankNonEmpty(v)

\* C10 (amended): a budget record is filled exactly when min or max is not
\* None or raw is non-empty; a budget held as a bare value is filled exactly
\* when it is a non-zero number or a non-blank string; stack and any other
\* slot are filled exactly when the value is not None, not a blank string and
\* not an empty list or tuple (a number or a mapping, even empty, is filled).
C10_FilledAsCoded ==
    call.op = "_is_filled" =>
        LET v == Get(slots, call.key) IN
        call.result =
            IF call.key = "budget"
            THEN CASE v.t = "dict" -> \/ Present(v.m, "min")
                                      \/ Present(v.m, "max")
                                      \/ (Present(v.m, "raw") /\ Truthy(Get(v.m, "raw")))
                   [] v.t = "num"  -> v.n # 0
                   [] v.t = "str"  -> Strip(v.s) # <<>>
                   [] OTHER        -> FALSE
            ELSE /\ v.t # "none"
                 /\ v.t = "str" => Strip(v.s) # <<>>
                 /\ v.t \in {"list", "tuple"} => Len(v.l) > 0

C10_Witness ==
    /\ call.op = "_is_filled"
    /\ call.key = "budget"
    /\ Get(slots, "budget") = DictV([raw |-> StrV(S_raw)])
    /\ call.result = TRUE

-----------------------------------------------------------------------------
(***************************************************************************)
(* Part 2: the slot extractor and the slot merger of                       *)
(* app/services/slot_extraction.py.                                        *)
(*                                                                         *)
(* The patterns of the module are regular expressions.  A pattern is a     *)
(* tree of nodes and ReMatch matches it the way Python's re does: leftmost *)
(* start, alternatives in the order written, greedy repetition, giving up  *)
(* one choice at a time when the rest of the pattern fails.                *)
(***************************************************************************)

\* characters outside ASCII; each stands for one character of a str
RUPEE       == "U+20B9"
POUND       == "U+00A3"
EURO        == "U+20AC"
FIGURE_DASH == "U+2012"
EN_DASH     == "U+2013"
EM_DASH     == "U+2014"
MINUS_SIGN  == "U+2212"

Digits == {"0","1","2","3","4","5","6","7","8","9"}
LowerSet == {LowerChars[i] : i \in 1..Len(LowerChars)}
UpperSet == {UpperChars[i] : i \in 1..Len(UpperChars)}

\* \w
WordChars == LowerSet \cup UpperSet \cup Digits \cup {"_"}

UpperChar(c) ==
    IF c \in LowerSet
    THEN UpperChars[CHOOSE i \in 1..Len(LowerChars) : LowerChars[i] = c]
    ELSE c

\* the nodes of a pattern
ReCls(S) == [k |-> "cls", set |-> S, neg |-> FALSE]
\* a negated character class [^...]
ReNot(S) == [k |-> "cls", set |-> S, neg |-> TRUE]
ReCh(c) == ReCls({c})
ReSeq(rs) == [k |-> "seq", rs |-> rs]
ReAlt(rs) == [k |-> "alt", rs |-> rs]
\* r{lo,hi}, greedy; hi = -1 stands for no upper limit
ReRep(r, lo, hi) == [k |-> "rep", r |-> r, lo |-> lo, hi |-> hi]
ReOpt(r) == ReRep(r, 0, 1)
ReStar(r) == ReRep(r, 0, -1)
RePlus(r) == ReRep(r, 1, -1)
\* (?P<name>r), or a numbered group named by its number
ReGrp(name, r) == [k |-> "grp", name |-> name, r |-> r]
\* \b
ReBnd == [k |-> "bnd"]
\* $
ReEos == [k |-> "eos"]
\* ^ (also what re.match adds in front of a pattern)
ReBos == [k |-> "bos"]
\* a literal string
ReLit(s) == [k |-> "lit", s |-> s]
\* \d and \s
ReDigit == ReCls(Digits)
ReSpace == ReCls(Whitespace)

ReFail == [ok |-> FALSE]

\* does character c match the class S (under re.I: in either case)
CharIn(cx, c, S) ==
    \/ c \in S
    \/ cx.ic /\ (LowerChar(c) \in S \/ UpperChar(c) \in S)

\* does character c match the class node n
ClsHas(cx, c, n) == CharIn(cx, c, n.set) # n.neg

IsWordAt(text, i) == i >= 1 /\ i <= Len(text) /\ text[i] \in WordChars

\* the number of characters of class n that follow one another from
\* position pos, at most hi of them when hi >= 0
RECURSIVE RunLen(_, _, _, _)
RunLen(cx, n, pos, hi) ==
    IF hi = 0 \/ pos > Len(cx.text) THEN 0
    ELSE IF ~ClsHas(cx, cx.text[pos], n) THEN 0
    ELSE 1 + RunLen(cx, n, pos + 1, IF hi > 0 THEN hi - 1 ELSE hi)

\* A state of the matcher is [pos, caps]: the position reached and the spans
\* <<first, one past last>> of the groups closed so far.  ReOuts(n, cx, st)
\* lists the states in which node n can be left when it is entered in state
\* st, in the order in which backtracking tries them: the first alternative
\* first, the longest repetition first.
RECURSIVE ReOuts(_, _, _)
RECURSIVE ReFlat(_, _, _)
RECURSIVE ReSeqOuts(_, _, _)
RECURSIVE ReAltOuts(_, _, _)

ReOuts(n, cx, st) ==
    CASE n.k = "cls" ->
           IF st.pos <= Len(cx.text) /\ ClsHas(cx, cx.text[st.pos], n)
           THEN <<[st EXCEPT !.pos = @ + 1]>>
           ELSE <<>>
      [] n.k = "lit" ->
           IF /\ st.pos + Len(n.s) - 1 <= Len(cx.text)
              /\ \A i \in 1..Len(n.s) : CharIn(cx, cx.text[st.pos + i - 1], {n.s[i]})
           THEN <<[st EXCEPT !.pos = @ + Len(n.s)]>>
           ELSE <<>>
      [] n.k = "seq" -> ReSeqOuts(n.rs, cx, <<st>>)
      [] n.k = "alt" -> ReAltOuts(n.rs, cx, st)
      [] n.k = "rep" ->
           IF n.r.k = "cls"
           THEN LET run == RunLen(cx, n.r, st.pos, n.hi) IN
                IF run < n.lo THEN <<>>
                ELSE [i \in 1..(run - n.lo + 1) |-> [st EXCEPT !.pos = @ + run - i + 1]]
           ELSE IF n.hi = 0 THEN <<st>>
           ELSE LET once == SelectSeq(ReOuts(n.r, cx, st), LAMBDA s : s.pos > st.pos)
                    more == ReFlat(ReRep(n.r,
                                         IF n.lo > 0 THEN n.lo - 1 ELSE 0,
                                         IF n.hi > 0 THEN n.hi - 1 ELSE n.hi),
                                   cx, once)
                IN more \o (IF n.lo > 0 THEN <<>> ELSE <<st>>)
      [] n.k = "grp" ->
           LET outs == ReOuts(n.r, cx, st) IN
           [i \in 1..Len(outs) |->
               [outs[i] EXCEPT !.caps = Put(@, n.name, <<st.pos, outs[i].pos>>)]]
      [] n.k = "bnd" ->
           IF IsWordAt(cx.text, st.pos - 1) # IsWordAt(cx.text, st.pos)
           THEN <<st>> ELSE <<>>
      [] n.k = "bos" -> IF st.pos = 1 THEN <<st>> ELSE <<>>
      [] n.k = "eos" ->
           IF \/ st.pos = Len(cx.text) + 1
              \/ st.pos = Len(cx.text) /\ cx.text[st.pos] = "\n"
           THEN <<st>> ELSE <<>>

\* node n entered in each of the states, in their order
ReFlat(n, cx, states) ==
    IF Len(states) = 0 THEN <<>>
    ELSE IF Len(states) = 1 THEN ReOuts(n, cx, states[1])
    ELSE LET h == Len(states) \div 2 IN
         ReFlat(n, cx, SubSeq(states, 1, h))
         \o ReFlat(n, cx, SubSeq(states, h + 1, Len(states)))

\* the nodes one after the other
ReSeqOuts(nodes, cx, states) ==
    IF Len(nodes) = 0 \/ Len(states) = 0 THEN states
    ELSE ReSeqOuts(Tail(nodes), cx, ReFlat(Head(nodes), cx, states))

\* the alternatives in the order written
ReAltOuts(nodes, cx, st) ==
    IF Len(nodes) = 0 THEN <<>>
    ELSE ReOuts(Head(nodes), cx, st) \o ReAltOuts(Tail(nodes), cx, st)

\* the match of pattern r at position p: the first state it can be left in
ReMatch(r, cx, p) ==
    LET outs == ReOuts(r, cx, [pos |-> p, caps |-> EmptyDict]) IN
    IF Len(outs) = 0 THEN ReFail
    ELSE [ok |-> TRUE, start |-> p, end |-> outs[1].pos, caps |-> outs[1].caps]

RECURSIVE ReSearchFrom(_, _, _)
ReSearchFrom(r, cx, p) ==
    IF p > Len(cx.text) + 1 THEN ReFail
    ELSE LET m == ReMatch(r, cx, p) IN
         IF m.ok THEN m ELSE ReSearchFrom(r, cx, p + 1)

\* re.search(r, text), with flag re.I when ic
re_search(r, text, ic) == ReSearchFrom(r, [text |-> text, ic |-> ic], 1)

\* m.group(0)
Group0(m, text) == SubSeq(text, m.start, m.end - 1)

\* m.group(name): the str the group matched, None when it took no part
Group(m, text, name) ==
    IF name \in DOMAIN m.caps
    THEN StrV(SubSeq(text, m.caps[name][1], m.caps[name][2] - 1))
    ELSE NoneV

\* _CORRECTION
S_change     == <<"c","h","a","n","g","e">>
S_actually   == <<"a","c","t","u","a","l","l","y">>
S_correction == <<"c","o","r","r","e","c","t","i","o","n">>
S_not        == <<"n","o","t">>
S_instead    == <<"i","n","s","t","e","a","d">>
S_rather     == <<"r","a","t","h","e","r">>
S_make_it    == <<"m","a","k","e"," ","i","t">>
S_update     == <<"u","p","d","a","t","e">>

_CORRECTION ==
    ReSeq(<<ReBnd,
          ReGrp("1", ReAlt(<<ReLit(S_change), ReLit(S_actually), ReLit(S_correction),
                         ReLit(S_not), ReLit(S_instead), ReLit(S_rather),
                         ReLit(S_make_it), ReLit(S_update)>>)),
          ReBnd>>)

\* _CORRECTION.search(user_text) is not None
HasCorrection(user_text) == re_search(_CORRECTION, user_text, TRUE).ok

-----------------------------------------------------------------------------
(* The tech-stack vocabulary and the merge logic.                          *)

\* _TECH_CANONICAL as the set of its items <<key, value>>
_TECH_CANONICAL ==
    {
     << <<"p","y","t","h","o","n">>, <<"p","y","t","h","o","n">> >>,
     << <<"j","a","v","a">>, <<"j","a","v","a">> >>,
     << <<"j","a","v","a","s","c","r","i","p","t">>, <<"j","a","v","a","s","c","r","i","p","t">> >>,
     << <<"t","y","p","e","s","c","r","i","p","t">>, <<"t","y","p","e","s","c","r","i","p","t">> >>,
     << <<"j","s">>, <<"j","a","v","a","s","c","r","i","p","t">> >>,
     << <<"t","s">>, <<"t","y","p","e","s","c","r","i","p","t">> >>,
     << <<"g","o","l","a","n","g">>, <<"g","o">> >>,
     << <<"g","o">>, <<"g","o">> >>,
     << <<"c","#">>, <<"c","s","h","a","r","p">> >>,
     << <<"c","s","h","a","r","p">>, <<"c","s","h","a","r","p">> >>,
     << <<"c","+","+">>, <<"c","p","p">> >>,
     << <<"c","p","p">>, <<"c","p","p">> >>,
     << <<"r","u","b","y">>, <<"r","u","b","y">> >>,
     << <<"p","h","p">>, <<"p","h","p">> >>,
     << <<"s","c","a","l","a">>, <<"s","c","a","l","a">> >>,
     << <<"r","u","s","t">>, <<"r","u","s","t">> >>,
     << <<"k","o","t","l","i","n">>, <<"k","o","t","l","i","n">> >>,
     << <<"n","o","d","e">>, <<"n","o","d","e","j","s">> >>,
     << <<"n","o","d","e","j","s">>, <<"n","o","d","e","j","s">> >>,
     << <<"n","o","d","e",".","j","s">>, <<"n","o","d","e","j","s">> >>,
     << <<"r","e","a","c","t">>, <<"r","e","a","c","t">> >>,
     << <<"r","e","a","c","t","j","s">>, <<"r","e","a","c","t">> >>,
     << <<"v","u","e">>, <<"v","u","e">> >>,
     << <<"v","u","e","j","s">>, <<"v","u","e">> >>,
     << <<"a","n","g","u","l","a","r">>, <<"a","n","g","u","l","a","r">> >>,
     << <<"n","e","x","t">>, <<"n","e","x","t","j","s">> >>,
     << <<"n","e","x","t","j","s">>, <<"n","e","x","t","j","s">> >>,
     << <<"n","u","x","t">>, <<"n","u","x","t","j","s">> >>,
     << <<"n","u","x","t","j","s">>, <<"n","u","x","t","j","s">> >>,
     << <<"e","x","p","r","e","s","s">>, <<"e","x","p","r","e","s","s">> >>,
     << <<"f","a","s","t","a","p","i">>, <<"f","a","s","t","a","p","i">> >>,
     << <<"f","l","a","s","k">>, <<"f","l","a","s","k">> >>,
     << <<"d","j","a","n","g","o">>, <<"d","j","a","n","g","o">> >>,
     << <<"s","p","r","i","n","g">>, <<"s","p","r","i","n","g">> >>,
     << <<"s","p","r","i","n","g","b","o","o","t">>, <<"s","p","r","i","n","g","b","o","o","t">> >>,
     << <<"s","p","r","i","n","g","-","b","o","o","t">>, <<"s","p","r","i","n","g","b","o","o","t">> >>,
     << <<"r","a","i","l","s">>, <<"r","a","i","l","s">> >>,
     << <<"l","a","r","a","v","e","l">>, <<"l","a","r","a","v","e","l">> >>,
     << <<".","n","e","t">>, <<"d","o","t","n","e","t">> >>,
     << <<"d","o","t","n","e","t">>, <<"d","o","t","n","e","t">> >>,
     << <<"s","q","l">>, <<"s","q","l">> >>,
     << <<"m","y","s","q","l">>, <<"m","y","s","q","l">> >>,
     << <<"p","o","s","t","g","r","e","s">>, <<"p","o","s","t","g","r","e","s">> >>,
     << <<"p","o","s","t","g","r","e","s","q","l">>, <<"p","o","s","t","g","r","e","s">> >>,
     << <<"m","o","n","g","o","d","b">>, <<"m","o","n","g","o","d","b">> >>,
     << <<"r","e","d","i","s">>, <<"r","e","d","i","s">> >>,
     << <<"k","a","f","k","a">>, <<"k","a","f","k","a">> >>,
     << <<"h","a","d","o","o","p">>, <<"h","a","d","o","o","p">> >>,
     << <<"s","p","a","r","k">>, <<"s","p","a","r","k">> >>,
     << <<"a","i","r","f","l","o","w">>, <<"a","i","r","f","l","o","w">> >>,
     << <<"p","a","n","d","a","s">>, <<"p","a","n","d","a","s">> >>,
     << <<"n","u","m","p","y">>, <<"n","u","m","p","y">> >>,
     << <<"t","e","n","s","o","r","f","l","o","w">>, <<"t","e","n","s","o","r","f","l","o","w">> >>,
     << <<"p","y","t","o","r","c","h">>, <<"p","y","t","o","r","c","h">> >>,
     << <<"s","k","l","e","a","r","n">>, <<"s","c","i","k","i","t","-","l","e","a","r","n">> >>,
     << <<"s","c","i","k","i","t","-","l","e","a","r","n">>, <<"s","c","i","k","i","t","-","l","e","a","r","n">> >>,
     << <<"m","l">>, <<"m","l">> >>,
     << <<"m","a","c","h","i","n","e"," ","l","e","a","r","n","i","n","g">>, <<"m","l">> >>,
     << <<"d","e","e","p"," ","l","e","a","r","n","i","n","g">>, <<"d","e","e","p","-","l","e","a","r","n","i","n","g">> >>,
     << <<"n","l","p">>, <<"n","l","p">> >>,
     << <<"c","o","m","p","u","t","e","r"," ","v","i","s","i","o","n">>, <<"c","v">> >>,
     << <<"c","v">>, <<"c","v">> >>,
     << <<"a","i">>, <<"a","i">> >>,
     << <<"d","o","c","k","e","r">>, <<"d","o","c","k","e","r">> >>,
     << <<"k","u","b","e","r","n","e","t","e","s">>, <<"k","u","b","e","r","n","e","t","e","s">> >>,
     << <<"k","8","s">>, <<"k","u","b","e","r","n","e","t","e","s">> >>,
     << <<"a","w","s">>, <<"a","w","s">> >>,
     << <<"a","z","u","r","e">>, <<"a","z","u","r","e">> >>,
     << <<"g","c","p">>, <<"g","c","p">> >>,
     << <<"t","e","r","r","a","f","o","r","m">>, <<"t","e","r","r","a","f","o","r","m">> >>,
     << <<"a","n","s","i","b","l","e">>, <<"a","n","s","i","b","l","e">> >>,
     << <<"l","i","n","u","x">>, <<"l","i","n","u","x">> >>,
     << <<"g","i","t">>, <<"g","i","t">> >>,
     << <<"g","i","t","h","u","b">>, <<"g","i","t","h","u","b">> >>,
     << <<"g","i","t","l","a","b">>, <<"g","i","t","l","a","b">> >>,
     << <<"c","i","/","c","d">>, <<"c","i","c","d">> >>,
     << <<"c","i","c","d">>, <<"c","i","c","d">> >>
    }

InTech(t) == \E p \in _TECH_CANONICAL : p[1] = t
TechOf(t) == (CHOOSE p \in _TECH_CANONICAL : p[1] = t)[2]

\* s with every character of the set drop removed
RECURSIVE Without(_, _)
Without(s, drop) ==
    IF s = <<>> THEN s
    ELSE IF Head(s) \in drop THEN Without(Tail(s), drop)
    ELSE <<Head(s)>> \o Without(Tail(s), drop)

\* the characters re.sub(r"[^a-z0-9+#\.-]", "", t) keeps
TechChars == LowerSet \cup Digits \cup {"+", "#", ".", "-"}

RECURSIVE Only(_, _)
Only(s, keep) ==
    IF s = <<>> THEN s
    ELSE IF Head(s) \in keep THEN <<Head(s)>> \o Only(Tail(s), keep)
    ELSE Only(Tail(s), keep)

\* _canon_tech(tok) of a str: the canonical token as a str, or None
_canon_tech(tok) ==
    LET t  == Lower(Strip(tok))
        t2 == Strip(Without(t, {"."}))
        t3 == Only(t, TechChars)
    IN IF t = <<>> THEN NoneV
       ELSE IF InTech(t) THEN StrV(TechOf(t))
       ELSE IF InTech(t2) THEN StrV(TechOf(t2))
       ELSE IF t3 = <<>> THEN NoneV
       ELSE IF InTech(t3) THEN StrV(TechOf(t3))
       ELSE StrV(t3)

\* the str tokens _union_stack takes from one of its arguments
StackTokens(v) ==
    CASE v.t = "list" -> SelectSeq(v.l, LAMBDA x : x.t = "str" /\ Strip(x.s) # <<>>)
      [] v.t = "str"  -> IF Strip(v.s) # <<>> THEN <<StrV(Strip(v.s))>> ELSE <<>>
      [] OTHER        -> <<>>

\* `_canon_tech(x) or x`
CanonOrSelf(x) == IF Truthy(_canon_tech(x.s)) THEN _canon_tech(x.s) ELSE x

\* the loop over canon that keeps the first occurrence of each token
RECURSIVE KeepFirst(_, _)
KeepFirst(canon, out) ==
    IF canon = <<>> THEN out
    ELSE IF \E i \in 1..Len(out) : out[i] = Head(canon)
         THEN KeepFirst(Tail(canon), out)
         ELSE KeepFirst(Tail(canon), Append(out, Head(canon)))

\* _union_stack that lets the incoming tokens replace the existing ones
_union_stack_last_wins(old, new) ==
    LET cur1  == StackTokens(new)
        canon == [i \in 1..Len(cur1) |-> CanonOrSelf(cur1[i])]
    IN KeepFirst(canon, <<>>)

_union_stack(old, new) ==
    LET cur1  == StackTokens(old) \o StackTokens(new)
        canon == [i \in 1..Len(cur1) |-> CanonOrSelf(cur1[i])]
    IN KeepFirst(canon, <<>>)

\* the outcome of a call: the value returned, or an exception raised
Ok(v) == [raised |-> FALSE, value |-> v]
Raised == [raised |-> TRUE]

\* is x an element dict(iterable) accepts as a key/value pair whose key the
\* model can name: a str of two characters
IsPair(x) == x.t = "str" /\ Len(x.s) = 2

RECURSIVE PairsToDict(_)
PairsToDict(l) ==
    IF l = <<>> THEN EmptyDict
    ELSE LET x == l[Len(l)] IN
         Put(PairsToDict(SubSeq(l, 1, Len(l) - 1)), x.s[1], StrV(<<x.s[2]>>))

\* dict(v): a copy of a dict; a dict built from a sequence of pairs;
\* ValueError or TypeError for a str that is not empty, a number, None
PyDict(v) ==
    CASE v.t = "dict" -> Ok(v.m)
      [] v.t = "str"  -> IF v.s = <<>> THEN Ok(EmptyDict) ELSE Raised
      [] v.t \in {"list", "tuple"} ->
           IF \A i \in 1..Len(v.l) : v.l[i].t = "str"
           THEN IF \A i \in 1..Len(v.l) : IsPair(v.l[i])
                THEN Ok(PairsToDict(v.l)) ELSE Raised
           ELSE IF \E i \in 1..Len(v.l) : v.l[i].t \in {"num", "none"}
                THEN Raised
                ELSE Ok(PairsToDict(v.l))
      [] v.t \in {"num", "none"} -> Raised

\* `a in b` for two str
IsSubstr(a, b) ==
    \E i \in 0..(Len(b) - Len(a)) : SubSeq(b, i + 1, i + Len(a)) = a

\* lines 295-305: the budget of the incoming slot set
MergeTokenKeys == {"currency", "unit", "period"}
MergeNumberKeys == {"min", "max"}

\* the budget branch overwriting every sub-field the incoming budget holds
MergeBudget_overwrite(ex, nt) ==
    IF ~Truthy(Get(nt, "budget")) THEN Ok(ex)
    ELSE IF ~Truthy(Get(ex, "budget")) THEN Ok(Put(ex, "budget", nt["budget"]))
    ELSE LET b  == PyDict(ex["budget"])
             nb == nt["budget"]
         IN IF b.raised THEN Raised
            ELSE IF nb.t # "dict" THEN Raised
            ELSE Ok(Put(ex, "budget",
                        DictV([k \in DOMAIN b.value \cup
                                     ((MergeTokenKeys \cup MergeNumberKeys) \cap DOMAIN nb.m) |->
                                 IF k \in DOMAIN nb.m /\ k \in MergeTokenKeys \cup MergeNumberKeys
                                 THEN nb.m[k] ELSE b.value[k]])))

MergeBudget(ex, nt) ==
    IF ~Truthy(Get(nt, "budget")) THEN Ok(ex)
    ELSE IF ~Truthy(Get(ex, "budget")) THEN Ok(Put(ex, "budget", nt["budget"]))
    ELSE LET b  == PyDict(ex["budget"])
             nb == nt["budget"]
             \* is sub-field k of b written from nb
             fill(k) ==
                 IF k \in MergeTokenKeys
                 THEN ~Truthy(Get(b.value, k)) /\ Truthy(Get(nb.m, k))
                 ELSE Get(b.value, k).t = "none" /\ Get(nb.m, k).t # "none"
             \* is nb.get(k) evaluated
             reads(k) ==
                 IF k \in MergeTokenKeys
                 THEN ~Truthy(Get(b.value, k))
                 ELSE Get(b.value, k).t = "none"
         IN IF b.raised THEN Raised
            ELSE IF nb.t # "dict"
                 THEN IF \E k \in MergeTokenKeys \cup MergeNumberKeys : reads(k)
                      THEN Raised
                      ELSE Ok(Put(ex, "budget", DictV(b.value)))
            ELSE Ok(Put(ex, "budget",
                        DictV([k \in DOMAIN b.value \cup
                                     {f \in MergeTokenKeys \cup MergeNumberKeys : fill(f)} |->
                                 IF k \in MergeTokenKeys \cup MergeNumberKeys /\ fill(k)
                                 THEN nb.m[k] ELSE b.value[k]])))

\* the location branch without the test of the turn text
MergeLocation_last_wins(ex, nt, user_text) ==
    IF Truthy(Get(nt, "location"))
    THEN Ok(Put(ex, "location", nt["location"]))
    ELSE Ok(ex)

\* lines 307-310
MergeLocation(ex, nt, user_text) ==
    IF Truthy(Get(nt, "location"))
       /\ (~Truthy(Get(ex, "location")) \/ HasCorrection(user_text))
    THEN Ok(Put(ex, "location", nt["location"]))
    ELSE Ok(ex)

\* ex.update(nt) in place of the seniority branch
MergeSeniority_update(ex, nt) ==
    Ok([k \in DOMAIN ex \cup DOMAIN nt |-> IF k \in DOMAIN nt THEN nt[k] ELSE ex[k]])

\* lines 312-314
MergeSeniority(ex, nt) ==
    IF Truthy(Get(nt, "seniority"))
    THEN Ok(Put(ex, "seniority", nt["seniority"]))
    ELSE Ok(ex)

\* the stack branch taken whatever the incoming slot set holds
MergeStack_always(ex, nt) ==
    Ok(Put(ex, "stack", ListV(_union_stack(Get(ex, "stack"), Get(nt, "stack")))))

\* lines 316-318
MergeStack(ex, nt) ==
    IF Truthy(Get(nt, "stack"))
    THEN Ok(Put(ex, "stack", ListV(_union_stack(Get(ex, "stack"), nt["stack"]))))
    ELSE Ok(ex)

\* the role_title branch taking every incoming title
MergeRoleTitle_last_wins(ex, nt, user_text) ==
    IF ~Truthy(Get(nt, "role_title")) THEN Ok(ex)
    ELSE IF nt["role_title"].t # "str" THEN Raised
    ELSE IF Truthy(Get(ex, "role_title")) /\ ex["role_title"].t # "str" THEN Raised
    ELSE Ok(Put(ex, "role_title", StrV(Strip(nt["role_title"].s))))

\* lines 320-330
MergeRoleTitle(ex, nt, user_text) ==
    IF ~Truthy(Get(nt, "role_title")) THEN Ok(ex)
    ELSE IF nt["role_title"].t # "str" THEN Raised
    ELSE IF Truthy(Get(ex, "role_title")) /\ ex["role_title"].t # "str" THEN Raised
    ELSE LET new_rt == Strip(nt["role_title"].s)
             cur_rt == IF Truthy(Get(ex, "role_title"))
                       THEN Strip(ex["role_title"].s) ELSE <<>>
             reframe == HasCorrection(user_text)
             more_specific == Len(new_rt) > Len(cur_rt) /\ IsSubstr(cur_rt, new_rt)
         IN IF cur_rt = <<>> THEN Ok(Put(ex, "role_title", StrV(new_rt)))
            ELSE IF reframe \/ more_specific
                 THEN Ok(Put(ex, "role_title", StrV(new_rt)))
                 ELSE Ok(ex)

\* smart_merge_slots(existing, new, user_text); existing and new are a dict
\* or None
smart_merge_slots(existing, new, user_text) ==
    LET ex0 == PyDict(IF Truthy(existing) THEN existing ELSE DictV(EmptyDict))
        nt  == IF Truthy(new) THEN new.m ELSE EmptyDict
        ex1 == MergeBudget(ex0.value, nt)
        ex2 == MergeLocation(ex1.value, nt, user_text)
        ex3 == MergeSeniority(ex2.value, nt)
        ex4 == MergeStack(ex3.value, nt)
        ex5 == MergeRoleTitle(ex4.value, nt, user_text)
    IN IF ex0.raised THEN Raised
       ELSE IF ex1.raised THEN Raised
       ELSE IF ex5.raised THEN Raised
       ELSE ex5

-----------------------------------------------------------------------------
(* Calls of smart_merge_slots: the prior slot set is `slots`, the incoming *)
(* slot set and the turn text are the inputs of the call.                  *)

S_python_eng   == <<"p","y","t","h","o","n"," ","e","n","g","i","n","e","e","r">>
S_engineer     == <<"e","n","g","i","n","e","e","r">>
S_mid_level    == <<"m","i","d"," ","l","e","v","e","l"," ","e","n","g","i","n","e","e","r">>
S_senior_py    == <<"s","e","n","i","o","r"," ","p","y","t","h","o","n"," ","e","n","g","i","n","e","e","r">>
S_golang_eng   == <<"g","o","l","a","n","g"," ","e","n","g","i","n","e","e","r">>
S_padded_qa    == <<" ","q","a"," ">>
S_Remote       == <<"R","e","m","o","t","e">>
S_senior       == <<"s","e","n","i","o","r">>
S_lpa          == <<"l","p","a">>
S_k            == <<"k">>
S_hour         == <<"h","o","u","r">>
S_raw_lpa      == <<"1","8","-","2","2"," ","L","P","A">>
S_20k          == <<"2","0","k">>
S_Python       == <<"P","y","t","h","o","n">>
S_Go           == <<"G","o">>
S_go           == <<"g","o">>
S_golang       == <<"g","o","l","a","n","g">>
S_NodeJs       == <<"N","o","d","e",".","j","s">>
S_react        == <<"r","e","a","c","t">>
S_odd          == <<"n","o","d","e","!",".","j",".","s">>
S_ab           == <<"a","b">>
T_correct      == <<"a","c","t","u","a","l","l","y"," ","c","h","a","n","g","e"," ","t","o"," ","g","o","l","a","n","g"," ","e","n","g","i","n","e","e","r">>
T_notable      == <<"n","o","t","a","b","l","e"," ","P","u","n","e">>
T_make_it      == <<"M","a","k","e"," ","I","t"," ","r","e","m","o","t","e">>

\* prior budgets: records with each sub-field populated or empty, an empty
\* record, and budgets stored as a str, a number or a list of str
PriorBudgetFields == <<"currency", "unit", "period", "min", "max">>

PriorBudgetFieldValues(f) ==
    CASE f = "currency" -> {StrV(<<>>), StrV(S_usd)}
      [] f = "unit"     -> {StrV(<<>>), StrV(S_k)}
      [] f = "period"   -> {StrV(<<>>), StrV(S_hour)}
      [] f = "min"      -> {NoneV, NumV(0), NumV(20)}
      [] f = "max"      -> {NoneV, NumV(20)}

PriorBudgetRecords ==
    {Put(m, "raw", StrV(S_raw)) :
        m \in {d \in BuildDicts(PriorBudgetFields,
                                [f \in {PriorBudgetFields[i] : i \in 1..Len(PriorBudgetFields)}
                                   |-> PriorBudgetFieldValues(f)]) :
                 \/ DOMAIN d = {PriorBudgetFields[i] : i \in 1..Len(PriorBudgetFields)}
                 \/ Cardinality(DOMAIN d) <= 1}}

\* the values a key of the prior slot set takes when it is present
PriorValues(k) ==
    CASE k = "budget"     -> {DictV(m) : m \in PriorBudgetRecords}
                             \cup {DictV(EmptyDict), StrV(S_20k), NumV(20),
                                   ListV(<<StrV(S_ab)>>), ListV(<<StrV(S_20k)>>)}
      [] k = "location"   -> {StrV(<<>>), StrV(S_pune), NoneV}
      [] k = "seniority"  -> {StrV(S_mid)}
      [] k = "stack"      -> {ListV(<<>>), ListV(<<StrV(S_Python)>>),
                              ListV(<<StrV(S_python), StrV(S_Go)>>),
                              ListV(<<StrV(S_NodeJs), StrV(S_react), StrV(S_golang)>>),
                              ListV(<<StrV(S_go), NumV(3), StrV(S_blank)>>),
                              ListV(<<StrV(S_odd)>>),
                              StrV(S_python), NoneV}
      [] k = "role_title" -> {StrV(<<>>), StrV(S_blank), StrV(S_python_eng),
                              StrV(S_engineer), StrV(S_padded_qa), NumV(5), NoneV}

MergeKeys == <<"budget", "location", "seniority", "stack", "role_title">>

\* a prior slot set holding every key
FullPrior ==
    [k \in {MergeKeys[i] : i \in 1..Len(MergeKeys)} |->
        CASE k = "budget"     -> DictV([currency |-> StrV(S_usd), min |-> NumV(20),
                                        max |-> NumV(20), unit |-> StrV(<<>>),
                                        period |-> StrV(S_hour), raw |-> StrV(S_raw)])
          [] k = "location"   -> StrV(S_pune)
          [] k = "seniority"  -> StrV(S_mid)
          [] k = "stack"      -> ListV(<<StrV(S_python)>>)
          [] k = "role_title" -> StrV(S_python_eng)]

\* the prior slot sets: the empty one, the full one, and both with one key
\* set to each of its values
\* the keys a slot set holds besides the five the merge deals with
OtherPrior(base) ==
    Put(Put(Put(base, "employment_type", StrV(S_contract)),
            "duration", StrV(<<"6"," ","m","o","n","t","h","s">>)),
        "candidates", ListV(<<StrV(<<"c","1">>)>>))

OtherIncoming(base) ==
    Put(Put(base, "employment_type", StrV(S_permanent)),
        "notes", StrV(<<"u","r","g","e","n","t">>))

PriorSlotSets ==
    {EmptyDict, FullPrior, OtherPrior(EmptyDict), OtherPrior(FullPrior)}
    \cup UNION {{Put(base, MergeKeys[i], v) :
                    base \in {EmptyDict, FullPrior}, v \in PriorValues(MergeKeys[i])} :
                 i \in 1..Len(MergeKeys)}

\* the values a key of the incoming slot set takes when it is present
IncomingValues(k) ==
    CASE k = "budget"     -> {DictV([currency |-> StrV(<<RUPEE>>), min |-> NumV(18),
                                     max |-> NumV(22), unit |-> StrV(S_lpa),
                                     period |-> StrV(<<>>), raw |-> StrV(S_raw_lpa)]),
                              DictV([currency |-> StrV(<<>>), min |-> NumV(0),
                                     max |-> NumV(0), unit |-> StrV(<<>>),
                                     period |-> StrV(<<>>), raw |-> StrV(<<"0">>)])}
      [] k = "location"   -> {StrV(S_Remote)}
      [] k = "seniority"  -> {StrV(S_senior), StrV(S_blank)}
      [] k = "stack"      -> {ListV(<<StrV(S_Go), StrV(S_Python)>>),
                              ListV(<<StrV(S_react)>>)}
      [] k = "role_title" -> {StrV(S_mid_level), StrV(S_senior_py),
                              StrV(S_golang_eng), StrV(S_engineer)}

\* an incoming slot set holding every key
FullIncoming ==
    [k \in {MergeKeys[i] : i \in 1..Len(MergeKeys)} |->
        CASE k = "budget"     -> DictV([currency |-> StrV(<<RUPEE>>), min |-> NumV(18),
                                        max |-> NumV(22), unit |-> StrV(S_lpa),
                                        period |-> StrV(<<>>), raw |-> StrV(S_raw_lpa)])
          [] k = "location"   -> StrV(S_Remote)
          [] k = "seniority"  -> StrV(S_senior)
          [] k = "stack"      -> ListV(<<StrV(S_react)>>)
          [] k = "role_title" -> StrV(S_golang_eng)]

\* the incoming slot sets: the empty one, the full one, and both with one key
\* set to each of its values
IncomingSlotSets ==
    {EmptyDict, FullIncoming, OtherIncoming(EmptyDict), OtherIncoming(FullIncoming)}
    \cup UNION {{Put(base, MergeKeys[i], v) :
                    base \in {EmptyDict, FullIncoming}, v \in IncomingValues(MergeKeys[i])} :
                 i \in 1..Len(MergeKeys)}

\* the raw texts of the turn: with and without a correction marker
TurnTexts == {<<>>, S_mid_level, T_correct, T_notable, T_make_it}

\* the argument `existing` of a call: the prior slot set, or None when the
\* conversation has none
PriorArgs == {DictV(slots)} \cup (IF DOMAIN slots = {} THEN {NoneV} ELSE {})

MergeInit ==
    /\ slots \in PriorSlotSets
    /\ stage = "collect"
    /\ hist = <<"collect">>
    /\ call = NoCall
    /\ Idle
    /\ Quiet

CallSmartMerge(existing, new, user_text) ==
    /\ call' = [op |-> "smart_merge_slots", existing |-> existing, new |-> new,
                text |-> user_text,
                result |-> smart_merge_slots(existing, DictV(new), user_text)]
    /\ UNCHANGED <<slots, stage, hist, pc, cur, seen, iters, svc>>

MergeNext ==
    /\ call.op = "none"
    /\ \E existing \in PriorArgs, new \in IncomingSlotSets, user_text \in TurnTexts :
          CallSmartMerge(existing, new, user_text)

MergeSpec == MergeInit /\ [][MergeNext]_vars

-----------------------------------------------------------------------------
(* The merge rules, as the properties state them.                          *)

MergeCall == call.op = "smart_merge_slots"

\* the call returned a slot set
Merged == MergeCall /\ ~call.result.raised

\* the value of key k before the merge, in the incoming slot set and after
PriorOf(k)    == Get(slots, k)
IncomingOf(k) == Get(call.new, k)
MergedOf(k)   == Get(call.result.value, k)

\* the correction markers, lower case
CorrectionMarkers ==
    {<<"c","h","a","n","g","e">>, <<"a","c","t","u","a","l","l","y">>,
     <<"c","o","r","r","e","c","t","i","o","n">>, <<"n","o","t">>,
     <<"i","n","s","t","e","a","d">>, <<"r","a","t","h","e","r">>,
     <<"m","a","k","e"," ","i","t">>, <<"u","p","d","a","t","e">>}

\* marker w stands at position i of text as a whole word, in any case
MarkerAt(text, w, i) ==
    /\ i + Len(w) - 1 <= Len(text)
    /\ Lower(SubSeq(text, i, i + Len(w) - 1)) = w
    /\ ~IsWordAt(text, i - 1)
    /\ ~IsWordAt(text, i + Len(w))

HasMarkerWord(text) ==
    \E w \in CorrectionMarkers : \E i \in 1..Len(text) : MarkerAt(text, w, i)

\* a title without the blanks around it; nothing for a value that is no str
Title(v) == IF v.t = "str" THEN Strip(v.s) ELSE <<>>

MoreSpecific(new, old) == Len(new) > Len(old) /\ IsSubstr(old, new)

\* C11: when the existing role_title is not empty (something is left of it
\* after trimming), the merged role_title differs from it only if the turn
\* text holds a correction marker or the incoming title is strictly longer
\* and contains the existing one, and then it is the incoming title; in
\* every other case the existing role_title comes back unchanged.
C11_RoleTitleKeptUnlessCorrected ==
    (Merged /\ Title(PriorOf("role_title")) # <<>>) =>
        \/ MergedOf("role_title") = PriorOf("role_title")
        \/ /\ \/ HasMarkerWord(call.text)
              \/ MoreSpecific(Title(IncomingOf("role_title")), Title(PriorOf("role_title")))
           /\ MergedOf("role_title") = StrV(Title(IncomingOf("role_title")))

\* "python engineer" has survived the later turn "mid level engineer"
C11_Witness ==
    /\ Merged
    /\ PriorOf("role_title") = StrV(S_python_eng)
    /\ IncomingOf("role_title") = StrV(S_mid_level)
    /\ call.text = S_mid_level
    /\ MergedOf("role_title") = StrV(S_python_eng)

BudgetSubFields == {"currency", "unit", "period", "min", "max"}

\* a sub-field is populated: a token that is not empty, a number that is set
Populated(f, v) == IF f \in {"min", "max"} THEN v.t # "none" ELSE Truthy(v)

\* sub-field f of a budget record v
SubField(v, f) == Get(v.m, f)

\* C13: when the existing budget is a record that is present, each populated
\* sub-field among currency, unit, period, min, max keeps its value whatever
\* the incoming budget holds, and each empty one takes the incoming value
\* when the incoming budget has one; when the existing budget is absent the
\* incoming budget is taken whole.
C13_BudgetFilledFieldWise ==
    (Merged /\ Truthy(IncomingOf("budget"))) =>
        /\ (PriorOf("budget").t = "dict" /\ Truthy(PriorOf("budget"))) =>
              \A f \in BudgetSubFields :
                 LET old == SubField(PriorOf("budget"), f)
                     inc == SubField(IncomingOf("budget"), f)
                     new == SubField(MergedOf("budget"), f)
                 IN IF Populated(f, old) THEN new = old
                    ELSE IF Populated(f, inc) THEN new = inc
                    ELSE new = old
        /\ ~Truthy(PriorOf("budget")) => MergedOf("budget") = IncomingOf("budget")

\* a budget with a price and no currency has taken the currency of the
\* incoming budget and kept its price
C13_Witness ==
    /\ Merged
    /\ PriorOf("budget").t = "dict" /\ Truthy(PriorOf("budget"))
    /\ Truthy(IncomingOf("budget"))
    /\ SubField(PriorOf("budget"), "currency") = StrV(<<>>)
    /\ SubField(PriorOf("budget"), "min") = NumV(20)
    /\ SubField(IncomingOf("budget"), "currency") = StrV(<<RUPEE>>)
    /\ SubField(IncomingOf("budget"), "min") = NumV(18)
    /\ SubField(MergedOf("budget"), "currency") = StrV(<<RUPEE>>)
    /\ SubField(MergedOf("budget"), "min") = NumV(20)

\* C14: an existing location that is not empty is replaced by the incoming
\* one only when the turn text holds a correction marker as a whole word, in
\* any case; without a marker it is kept; an empty existing location takes
\* the incoming one.
C14_LocationReplacedOnlyOnMarker ==
    Merged =>
        /\ (Truthy(PriorOf("location")) /\ ~HasMarkerWord(call.text)) =>
              MergedOf("location") = PriorOf("location")
        /\ (Truthy(PriorOf("location")) /\ MergedOf("location") # PriorOf("location")) =>
              /\ HasMarkerWord(call.text)
              /\ MergedOf("location") = IncomingOf("location")
        /\ (~Truthy(PriorOf("location")) /\ Truthy(IncomingOf("location"))) =>
              MergedOf("location") = IncomingOf("location")

\* "Make It remote" has moved the location from Pune to Remote
C14_Witness ==
    /\ Merged
    /\ PriorOf("location") = StrV(S_pune)
    /\ IncomingOf("location") = StrV(S_Remote)
    /\ call.text = T_make_it
    /\ MergedOf("location") = StrV(S_Remote)

-----------------------------------------------------------------------------
(* The turns of one conversation as far as the slot set goes: each turn    *)
(* merges the slot set extracted from it into the stored slot set with     *)
(* smart_merge_slots and stores the result.  A turn whose merge raises     *)
(* stores nothing.                                                         *)

\* the slot sets a conversation starts from: none, and slot sets stored by
\* another writer (display tokens, a stack kept as one str, odd tokens)
StoredSlotSets ==
    {EmptyDict,
     [stack |-> ListV(<<StrV(S_Python)>>)],
     [stack |-> ListV(<<StrV(S_NodeJs), StrV(S_react), StrV(S_golang)>>)],
     [stack |-> ListV(<<StrV(S_go), NumV(3), StrV(S_blank)>>)],
     [stack |-> ListV(<<StrV(S_odd)>>)],
     [stack |-> StrV(S_python)]}

\* the slot sets extracted from the turns
TurnSlotSets ==
    {EmptyDict,
     FullIncoming,
     [stack |-> ListV(<<StrV(S_Go), StrV(S_Python)>>)],
     [stack |-> ListV(<<StrV(S_react)>>)],
     [stack |-> ListV(<<StrV(S_golang), StrV(S_NodeJs)>>)],
     [stack |-> ListV(<<StrV(S_blank)>>)],
     [stack |-> StrV(S_NodeJs)],
     [role_title |-> StrV(S_senior_py), seniority |-> StrV(S_senior)]}

MergeTurnInit ==
    /\ slots \in StoredSlotSets
    /\ stage = "collect"
    /\ hist = <<"collect">>
    /\ call = NoCall
    /\ Idle
    /\ Quiet

MergeTurn(new, user_text) ==
    LET r == smart_merge_slots(DictV(slots), DictV(new), user_text) IN
    /\ call' = [op |-> "smart_merge_slots", existing |-> DictV(slots), new |-> new,
                text |-> user_text, result |-> r]
    /\ slots' = IF r.raised THEN slots ELSE r.value
    /\ UNCHANGED <<stage, hist, pc, cur, seen, iters, svc>>

MergeTurnNext ==
    \E new \in TurnSlotSets, user_text \in {<<>>, T_correct} : MergeTurn(new, user_text)

MergeTurnSpec == MergeTurnInit /\ [][MergeTurnNext]_vars

\* the value of key k in the argument `existing` of the last merge
ExistingOf(k) == IF call.existing.t = "dict" THEN Get(call.existing.m, k) ELSE NoneV

\* the tokens of a stack: the str of a list that are not blank, or the one
\* str a stack kept as a str holds
TokensOf(v) ==
    CASE v.t = "list" -> {v.l[i] : i \in {j \in 1..Len(v.l) :
                                            v.l[j].t = "str" /\ Strip(v.l[j].s) # <<>>}}
      [] v.t = "str"  -> IF Strip(v.s) = <<>> THEN {} ELSE {StrV(Strip(v.s))}
      [] OTHER        -> {}

\* the canonical form of a token
CanonForm(x) == CanonOrSelf(x)

CanonForms(v) == {CanonForm(x) : x \in TokensOf(v)}

\* C15: after a merge with a non-empty incoming stack the merged stack is a
\* list without duplicates whose tokens are exactly the canonical forms of
\* the existing and of the incoming tokens, those of the existing tokens
\* before the newly added ones; and over the merges of a conversation every
\* token of the stack stays in the stored stack, as it is or in its
\* canonical form.
C15_StackIsCanonicalUnion ==
    Merged =>
        /\ Truthy(IncomingOf("stack")) =>
              LET out == MergedOf("stack").l
                  old == CanonForms(ExistingOf("stack"))
              IN /\ MergedOf("stack").t = "list"
                 /\ \A i, j \in 1..Len(out) : i # j => out[i] # out[j]
                 /\ Range(out) = old \cup CanonForms(IncomingOf("stack"))
                 /\ \A i, j \in 1..Len(out) :
                       (out[i] \in old /\ out[j] \notin old) => i < j
        /\ \A x \in TokensOf(ExistingOf("stack")) :
              \/ x \in TokensOf(Get(slots, "stack"))
              \/ CanonForm(x) \in TokensOf(Get(slots, "stack"))

\* Go and Python have joined a stack that held Node.js, react and golang:
\* go is there once, after nodejs and react and before python
C15_Witness ==
    /\ Merged
    /\ ExistingOf("stack") = ListV(<<StrV(S_NodeJs), StrV(S_react), StrV(S_golang)>>)
    /\ IncomingOf("stack") = ListV(<<StrV(S_Go), StrV(S_Python)>>)
    /\ Get(slots, "stack") = ListV(<<StrV(<<"n","o","d","e","j","s">>), StrV(S_react),
                                     StrV(S_go), StrV(S_python)>>)

\* C16: merging an empty incoming slot set with an empty turn text returns
\* the slot set it was given.
C16_EmptyIncomingChangesNothing ==
    (MergeCall /\ call.existing.t = "dict" /\ DOMAIN call.new = {} /\ call.text = <<>>) =>
        /\ ~call.result.raised
        /\ call.result.value = call.existing.m

\* the full prior slot set has come back from a merge with {} and ""
C16_Witness ==
    /\ Merged
    /\ call.existing = DictV(FullPrior)
    /\ DOMAIN call.new = {} /\ call.text = <<>>
    /\ call.result.value = FullPrior

\* C17: smart_merge_slots never raises, whatever the prior slot set holds
\* (absent keys, no prior slot set, a prior budget stored as a str or a
\* number): every call returns a merged slot set.
C17_MergeNeverRaises ==
    MergeCall => ~call.result.raised

\* C18: the merge the program offers for turns without correction semantics
\* never replaces a truthy existing value: every key whose existing value is
\* truthy holds that value in the result, whatever the incoming slot set is.
\* (The only merge of the program is smart_merge_slots; without correction
\* semantics it is called with its default user_text "".)
C18_NaiveMergeKeepsTruthy ==
    (Merged /\ call.text = <<>>) =>
        \A k \in DOMAIN slots : Truthy(slots[k]) => MergedOf(k) = slots[k]

-----------------------------------------------------------------------------
(* The extractors.                                                         *)

_DASHES == {FIGURE_DASH, EN_DASH, EM_DASH, MINUS_SIGN}

\* _DASH_RE.sub("-", text)
DashSub(text) == [i \in 1..Len(text) |-> IF text[i] \in _DASHES THEN "-" ELSE text[i]]

\* a number without a fraction is NumV(n); n / d with d a power of ten
\* otherwise
RECURSIVE Decimal(_, _)
Decimal(n, d) ==
    IF d = 1 THEN NumV(n)
    ELSE IF n % 10 = 0 THEN Decimal(n \div 10, d \div 10)
    ELSE [t |-> "num", n |-> n, d |-> d]

\* x * f for a number x of either form
Times(x, f) == IF "d" \in DOMAIN x THEN Decimal(x.n * f, x.d) ELSE NumV(x.n * f)

DigitValue(c) ==
    CASE c = "0" -> 0 [] c = "1" -> 1 [] c = "2" -> 2 [] c = "3" -> 3 [] c = "4" -> 4
      [] c = "5" -> 5 [] c = "6" -> 6 [] c = "7" -> 7 [] c = "8" -> 8 [] c = "9" -> 9

\* the value of a string of digits and the power of ten of its length
RECURSIVE DigitsValue(_)
DigitsValue(s) ==
    IF s = <<>> THEN 0 ELSE DigitsValue(SubSeq(s, 1, Len(s) - 1)) * 10 + DigitValue(s[Len(s)])

RECURSIVE PowerOfTen(_)
PowerOfTen(k) == IF k = 0 THEN 1 ELSE 10 * PowerOfTen(k - 1)

\* float(s) for the strings the value groups match once "," and " " are
\* removed: digits, or digits "." digits; ValueError for any other string
PyFloat(s) ==
    LET dots == {i \in 1..Len(s) : s[i] = "."} IN
    IF s # <<>> /\ \A i \in 1..Len(s) : s[i] \in Digits
    THEN Ok(NumV(DigitsValue(s)))
    ELSE IF /\ Cardinality(dots) = 1
            /\ \A i \in 1..Len(s) : s[i] \in Digits \cup {"."}
            /\ \A i \in dots : i > 1 /\ i < Len(s)
    THEN LET i == CHOOSE j \in dots : TRUE IN
         Ok(Decimal(DigitsValue(SubSeq(s, 1, i - 1) \o SubSeq(s, i + 1, Len(s))),
                    PowerOfTen(Len(s) - i)))
    ELSE Raised

\* _num(x)
_num(x) == PyFloat(Without(x, {",", " "}))

\* _norm_cur(c)
_norm_cur(c) ==
    LET lc == Lower(Strip(c)) IN
    IF lc \in {<<RUPEE>>, <<"r","s">>, <<"r","s",".">>, <<"i","n","r">>} THEN <<RUPEE>>
    ELSE IF lc \in {<<"$">>, <<"u","s","d">>} THEN <<"$">>
    ELSE IF lc \in {<<"e","u","r">>, <<EURO>>} THEN <<EURO>>
    ELSE IF lc \in {<<"g","b","p">>, <<POUND>>} THEN <<POUND>>
    ELSE [i \in 1..Len(lc) |-> UpperChar(lc[i])]

\* (?P<cur>₹|rs\.?|inr|\$|usd|eur|£)
ReCurrency(name) ==
    ReGrp(name, ReAlt(<<ReCh(RUPEE),
                        ReSeq(<<ReLit(<<"r","s">>), ReOpt(ReCh("."))>>),
                        ReLit(<<"i","n","r">>), ReCh("$"), ReLit(<<"u","s","d">>), ReLit(<<"e","u","r">>),
                        ReCh(POUND)>>))

\* (?P<v>\d{1,3}(?:[,\s]\d{3})*|\d+(?:\.\d+)?)
ReValue(name) ==
    ReGrp(name, ReAlt(<<ReSeq(<<ReRep(ReDigit, 1, 3),
                                ReStar(ReSeq(<<ReCls({","} \cup Whitespace),
                                               ReRep(ReDigit, 3, 3)>>))>>),
                        ReSeq(<<RePlus(ReDigit),
                                ReOpt(ReSeq(<<ReCh("."), RePlus(ReDigit)>>))>>)>>))

\* (?P<unit>k|m|cr|crore|lpa|lac|lakh|lakhs)
ReUnit ==
    ReGrp("unit", ReAlt(<<ReLit(<<"k">>), ReLit(<<"m">>), ReLit(<<"c","r">>), ReLit(<<"c","r","o","r","e">>),
                          ReLit(<<"l","p","a">>), ReLit(<<"l","a","c">>), ReLit(<<"l","a","k","h">>), ReLit(<<"l","a","k","h","s">>)>>))

\* (?:\s*(?:/|per)\s*(?P<period>mo|month|hr|hour|yr|year|annum|pa|day|d))?
RePeriod ==
    ReOpt(ReSeq(<<ReStar(ReSpace),
                  ReAlt(<<ReCh("/"), ReLit(<<"p","e","r">>)>>),
                  ReStar(ReSpace),
                  ReGrp("period",
                        ReAlt(<<ReLit(<<"m","o">>), ReLit(<<"m","o","n","t","h">>), ReLit(<<"h","r">>), ReLit(<<"h","o","u","r">>), ReLit(<<"y","r">>),
                                ReLit(<<"y","e","a","r">>), ReLit(<<"a","n","n","u","m">>), ReLit(<<"p","a">>), ReLit(<<"d","a","y">>), ReLit(<<"d">>)>>))>>))

_BUDGET_RANGE ==
    ReSeq(<<ReOpt(ReCurrency("cur1")), ReStar(ReSpace),
            ReValue("v1"),
            ReStar(ReSpace),
            ReAlt(<<ReCh("-"), ReLit(<<"t","o">>), ReCh(EN_DASH), ReCh(EM_DASH), ReCh("~")>>),
            ReStar(ReSpace),
            ReValue("v2"),
            ReStar(ReSpace), ReOpt(ReUnit),
            ReOpt(ReSeq(<<ReStar(ReSpace), ReCurrency("cur2")>>)),
            RePeriod>>)

_BUDGET_SINGLE ==
    ReSeq(<<ReOpt(ReCurrency("cur1")), ReStar(ReSpace),
            ReValue("v1"),
            ReOpt(ReSeq(<<ReStar(ReSpace), ReCurrency("cur2")>>)),
            ReStar(ReSpace), ReOpt(ReUnit),
            RePeriod>>)

S_per == <<"p","e","r">>

\* the period a period token stands for (lines 169-173)
PeriodNorm(tok) ==
    IF tok \in {<<"h","r">>, <<"h","o","u","r">>} THEN <<"h","o","u","r">>
    ELSE IF tok \in {<<"m","o">>, <<"m","o","n","t","h">>} THEN <<"m","o","n","t","h">>
    ELSE IF tok \in {<<"y","r">>, <<"y","e","a","r">>, <<"a","n","n","u","m">>, <<"p","a">>} THEN <<"y","e","a","r">>
    ELSE IF tok \in {<<"d","a","y">>, <<"d">>} THEN <<"d","a","y">>
    ELSE <<>>

\* the units that stand for rupees (line 175)
RupeeUnits == {<<"l","p","a">>, <<"l","a","c">>, <<"l","a","k","h">>, <<"l","a","k","h","s">>, <<"c","r">>, <<"c","r","o","r","e">>}

\* the factor when only the unit k scales the numbers
UnitFactor_thousand_only(unit_token) ==
    IF unit_token = <<"k">> THEN 1000 ELSE 1

\* the factor of a magnitude unit (lines 178-183)
UnitFactor(unit_token) ==
    IF unit_token = <<"k">> THEN 1000
    ELSE IF unit_token = <<"m">> THEN 1000000
    ELSE 1

\* the match budget works on: that of _BUDGET_RANGE, or else that of
\* _BUDGET_SINGLE (line 147)
BudgetMatch(t) ==
    LET mr == re_search(_BUDGET_RANGE, t, TRUE) IN
    IF mr.ok THEN mr ELSE re_search(_BUDGET_SINGLE, t, TRUE)

\* lines 175-176: the rupee units stand for rupees when no currency is given
BudgetCurrency(cur_n, unit_token) ==
    IF cur_n = <<>> /\ unit_token \in RupeeUnits THEN <<RUPEE>> ELSE cur_n

\* lines 158-192, from the duration guard on
BudgetOfValues(cur0, v1f, v2f, unit_token, period_tok, raw_span) ==
    IF /\ cur0 = <<>> /\ unit_token = <<>> /\ period_tok # <<>>
       /\ ~IsSubstr(S_per, Lower(raw_span))
       /\ ~IsSubstr(<<"/">>, raw_span)
    THEN NoneV
    ELSE IF v1f.raised \/ v2f.raised THEN NoneV
    ELSE DictV([currency |-> StrV(BudgetCurrency(_norm_cur(cur0), unit_token)),
                min      |-> Times(v1f.value, UnitFactor(unit_token)),
                max      |-> Times(v2f.value, UnitFactor(unit_token)),
                unit     |-> StrV(unit_token),
                period   |-> StrV(PeriodNorm(period_tok)),
                raw      |-> StrV(Strip(raw_span))])

\* lines 150-156: cur, v1, v2, unit_token, period_tok and raw_span from the
\* groups of the match
BudgetOfGroups(cur1, cur2, v1, v2, unit, period, raw_span) ==
    BudgetOfValues(Strip(IF Truthy(cur1) THEN cur1.s ELSE OrEmpty(cur2)),
                   _num(v1.s),
                   _num(IF Truthy(v2) THEN v2.s ELSE v1.s),
                   Lower(OrEmpty(unit)), Lower(OrEmpty(period)), raw_span)

BudgetOfMatch(m, t) ==
    IF ~m.ok THEN NoneV
    ELSE BudgetOfGroups(Group(m, t, "cur1"), Group(m, t, "cur2"),
                        Group(m, t, "v1"), Group(m, t, "v2"),
                        Group(m, t, "unit"), Group(m, t, "period"), Group0(m, t))

BudgetOfText(t) == BudgetOfMatch(BudgetMatch(t), t)

\* budget(text): the budget record, or None
budget(text) == IF text = <<>> THEN NoneV ELSE BudgetOfText(DashSub(text))

-----------------------------------------------------------------------------
\* _norm_spaces(s): every run of whitespace becomes one space, then strip()
RECURSIVE CollapseSpaces(_)
CollapseSpaces(s) ==
    IF s = <<>> THEN s
    ELSE IF Head(s) \in Whitespace
         THEN IF Len(s) > 1 /\ s[2] \in Whitespace
              THEN CollapseSpaces(Tail(s))
              ELSE <<" ">> \o CollapseSpaces(Tail(s))
         ELSE <<Head(s)>> \o CollapseSpaces(Tail(s))

_norm_spaces(s) == Strip(CollapseSpaces(s))

\* `kw in t` for every kw of _LOC_HINTS
_LOC_HINTS == {<<"r","e","m","o","t","e">>, <<"h","y","b","r","i","d">>, <<"o","n","s","i","t","e">>, <<"o","n","-","s","i","t","e">>, <<"w","o","r","k"," ","f","r","o","m"," ","h","o","m","e">>, <<"w","f","h">>}

Letters == LowerSet \cup UpperSet

\* (?i)\b(?:in|at)\s+([A-Z][a-zA-Z\-\s]{2,40})\b
ReLocation ==
    ReSeq(<<ReBnd, ReAlt(<<ReLit(<<"i","n">>), ReLit(<<"a","t">>)>>), RePlus(ReSpace),
            ReGrp("1", ReSeq(<<ReCls(UpperSet),
                               ReRep(ReCls(Letters \cup {"-"} \cup Whitespace), 2, 40)>>)),
            ReBnd>>)

\* location(text): the values the call can return.  The loop of line 197
\* runs over a set of str, whose order changes from one process to the
\* next, so that any hint the text contains can be the one returned.
location(text) ==
    LET t     == Lower(text)
        hints == {kw \in _LOC_HINTS : IsSubstr(kw, t)}
        m     == re_search(ReLocation, text, TRUE)
    IN IF text = <<>> THEN {NoneV}
       ELSE IF hints # {}
       THEN {StrV(IF kw = <<"r","e","m","o","t","e">> THEN <<"R","e","m","o","t","e">> ELSE kw) : kw \in hints}
       ELSE IF m.ok THEN {StrV(_norm_spaces(Group(m, text, "1").s))}
       ELSE {NoneV}

_ROLE_KEYWORDS ==
    <<<<"d","a","t","a"," ","e","n","g","i","n","e","e","r">>, <<"b","a","c","k","e","n","d"," ","e","n","g","i","n","e","e","r">>, <<"f","r","o","n","t","e","n","d"," ","e","n","g","i","n","e","e","r">>,
      <<"f","u","l","l"," ","s","t","a","c","k"," ","d","e","v","e","l","o","p","e","r">>, <<"f","u","l","l","-","s","t","a","c","k"," ","d","e","v","e","l","o","p","e","r">>,
      <<"d","e","v","o","p","s"," ","e","n","g","i","n","e","e","r">>, <<"s","r","e">>, <<"m","l"," ","e","n","g","i","n","e","e","r">>, <<"a","i"," ","e","n","g","i","n","e","e","r">>,
      <<"s","o","f","t","w","a","r","e"," ","e","n","g","i","n","e","e","r">>, <<"p","y","t","h","o","n"," ","e","n","g","i","n","e","e","r">>,
      <<"j","a","v","a"," ","d","e","v","e","l","o","p","e","r">>, <<"g","o","l","a","n","g"," ","d","e","v","e","l","o","p","e","r">>, <<"n","o","d","e"," ","d","e","v","e","l","o","p","e","r">>,
      <<"r","e","a","c","t"," ","d","e","v","e","l","o","p","e","r">>, <<"p","r","o","d","u","c","t"," ","m","a","n","a","g","e","r">>,
      <<"q","a">>, <<"t","e","s","t","e","r">>, <<"a","n","a","l","y","s","t">>, <<"a","r","c","h","i","t","e","c","t">>, <<"s","c","i","e","n","t","i","s","t">>,
      <<"d","e","s","i","g","n","e","r">>, <<"m","a","n","a","g","e","r">>, <<"d","e","v","e","l","o","p","e","r">>, <<"e","n","g","i","n","e","e","r">>>>

\* [a-z0-9\-\s]
RoleChars == LowerSet \cup Digits \cup {"-"} \cup Whitespace

\* (?:need|looking\s+for|hiring)\s+(?:an?\s+|the\s+)?([a-z][a-z0-9\-\s]{2,40})\b
ReRoleNeed ==
    ReSeq(<<ReAlt(<<ReLit(<<"n","e","e","d">>),
                    ReSeq(<<ReLit(<<"l","o","o","k","i","n","g">>), RePlus(ReSpace), ReLit(<<"f","o","r">>)>>),
                    ReLit(<<"h","i","r","i","n","g">>)>>),
            RePlus(ReSpace),
            ReOpt(ReAlt(<<ReSeq(<<ReCh("a"), ReOpt(ReCh("n")), RePlus(ReSpace)>>),
                          ReSeq(<<ReLit(<<"t","h","e">>), RePlus(ReSpace)>>)>>)),
            ReGrp("1", ReSeq(<<ReCls(LowerSet), ReRep(ReCls(RoleChars), 2, 40)>>)),
            ReBnd>>)

\* \s+(for|at)\s+.*$
ReForAtTail ==
    ReSeq(<<RePlus(ReSpace), ReAlt(<<ReLit(<<"f","o","r">>), ReLit(<<"a","t">>)>>), RePlus(ReSpace),
            ReStar(ReNot({"\n"})), ReEos>>)

\* re.sub(r, "", s) for a pattern that reaches the end of s when it matches
SubTail(r, s) ==
    LET m == re_search(r, s, FALSE) IN
    IF m.ok THEN SubSeq(s, 1, m.start - 1) \o SubSeq(s, m.end, Len(s)) ELSE s

\* \b([a-z][a-z0-9\-\s]{2,40})\s+(?:in|at)\s+[a-z][a-z\-\s]{2,40}\b
ReRoleIn ==
    ReSeq(<<ReBnd,
            ReGrp("1", ReSeq(<<ReCls(LowerSet), ReRep(ReCls(RoleChars), 2, 40)>>)),
            RePlus(ReSpace), ReAlt(<<ReLit(<<"i","n">>), ReLit(<<"a","t">>)>>), RePlus(ReSpace),
            ReCls(LowerSet), ReRep(ReCls(LowerSet \cup {"-"} \cup Whitespace), 2, 40),
            ReBnd>>)

\* \b(lpa|rs|inr|\$|\d|month|mo|yr|year|hour|hr)\b
ReMoneyWord ==
    ReSeq(<<ReBnd,
            ReAlt(<<ReLit(<<"l","p","a">>), ReLit(<<"r","s">>), ReLit(<<"i","n","r">>), ReCh("$"), ReDigit,
                    ReLit(<<"m","o","n","t","h">>), ReLit(<<"m","o">>), ReLit(<<"y","r">>), ReLit(<<"y","e","a","r">>),
                    ReLit(<<"h","o","u","r">>), ReLit(<<"h","r">>)>>),
            ReBnd>>)

\* \b([a-z][a-z0-9\-\s]{0,30}kw)\b
ReRoleKeyword(kw) ==
    ReSeq(<<ReBnd,
            ReGrp("1", ReSeq(<<ReCls(LowerSet), ReRep(ReCls(RoleChars), 0, 30), ReLit(kw)>>)),
            ReBnd>>)

\* the loop of lines 221-226: the longest candidate, the first one of that
\* length; <<>> stands for `best = None`
RECURSIVE BestRole(_, _, _)
BestRole(t, i, best) ==
    IF i > Len(_ROLE_KEYWORDS) THEN best
    ELSE LET m    == re_search(ReRoleKeyword(_ROLE_KEYWORDS[i]), t, FALSE)
             cand == _norm_spaces(Group(m, t, "1").s)
         IN IF m.ok /\ (best = <<>> \/ Len(cand) > Len(best))
            THEN BestRole(t, i + 1, cand)
            ELSE BestRole(t, i + 1, best)

\* lines 207-212: the candidate of the first pattern, or None
RoleAfterNeed(m, t) ==
    IF m.ok
    THEN StrV(Strip(SubTail(ReForAtTail, _norm_spaces(Group(m, t, "1").s))))
    ELSE NoneV

\* lines 214-218: the candidate of the second pattern, or None
RoleBeforePlace(m, t) ==
    IF m.ok THEN StrV(_norm_spaces(Group(m, t, "1").s)) ELSE NoneV

\* re.match(r"^\d", cand)
StartsWithDigit(cand) ==
    ReMatch(ReSeq(<<ReBos, ReDigit>>), [text |-> cand, ic |-> FALSE], 1).ok

\* the first of the three candidates that is accepted
RoleOf(t, cand1, cand2) ==
    IF cand1 # NoneV /\ ~StartsWithDigit(cand1.s) THEN cand1
    ELSE IF cand2 # NoneV /\ ~re_search(ReMoneyWord, cand2.s, FALSE).ok THEN cand2
    ELSE LET best == BestRole(t, 1, <<>>) IN
         IF best = <<>> THEN NoneV ELSE StrV(best)

RoleOfText(t) ==
    RoleOf(t, RoleAfterNeed(re_search(ReRoleNeed, t, FALSE), t),
              RoleBeforePlace(re_search(ReRoleIn, t, FALSE), t))

\* role_title(text)
role_title(text) == IF text = <<>> THEN NoneV ELSE RoleOfText(Lower(text))

SeniorityWords ==
    <<<<"i","n","t","e","r","n">>, <<"j","u","n","i","o","r">>, <<"a","s","s","o","c","i","a","t","e">>, <<"m","i","d">>, <<"m","i","d","-","l","e","v","e","l">>, <<"s","e","n","i","o","r">>,
      <<"l","e","a","d">>, <<"p","r","i","n","c","i","p","a","l">>, <<"s","t","a","f","f">>, <<"d","i","r","e","c","t","o","r">>, <<"v","p">>, <<"h","e","a","d">>>>

\* seniority(text): the first word of the list that the text holds
seniority(text) ==
    LET found == {i \in 1..Len(SeniorityWords) :
                     re_search(ReSeq(<<ReBnd, ReLit(SeniorityWords[i]), ReBnd>>), text, TRUE).ok}
    IN IF text = <<>> \/ found = {} THEN NoneV
       ELSE StrV(SeniorityWords[CHOOSE i \in found : \A j \in found : i <= j])

\* _TECH_TERMS, as a set: the keys and the values of _TECH_CANONICAL
_TECH_TERMS == {p[1] : p \in _TECH_CANONICAL} \cup {p[2] : p \in _TECH_CANONICAL}

\* (?:tech\s*stack|stack|skills|must[-\s]*haves?|nice[-\s]*to[-\s]*haves?|
\*    experience\s+with|experience\s+in|proficient\s+in|using)
DashOrSpace == ReStar(ReCls({"-"} \cup Whitespace))

_STACK_LEADS ==
    <<ReSeq(<<ReLit(<<"t","e","c","h">>), ReStar(ReSpace), ReLit(<<"s","t","a","c","k">>)>>),
      ReLit(<<"s","t","a","c","k">>),
      ReLit(<<"s","k","i","l","l","s">>),
      ReSeq(<<ReLit(<<"m","u","s","t">>), DashOrSpace, ReLit(<<"h","a","v","e">>), ReOpt(ReCh("s"))>>),
      ReSeq(<<ReLit(<<"n","i","c","e">>), DashOrSpace, ReLit(<<"t","o">>), DashOrSpace, ReLit(<<"h","a","v","e">>), ReOpt(ReCh("s"))>>),
      ReSeq(<<ReLit(<<"e","x","p","e","r","i","e","n","c","e">>), RePlus(ReSpace), ReLit(<<"w","i","t","h">>)>>),
      ReSeq(<<ReLit(<<"e","x","p","e","r","i","e","n","c","e">>), RePlus(ReSpace), ReLit(<<"i","n">>)>>),
      ReSeq(<<ReLit(<<"p","r","o","f","i","c","i","e","n","t">>), RePlus(ReSpace), ReLit(<<"i","n">>)>>),
      ReLit(<<"u","s","i","n","g">>)>>

\* (?:leads)\s*[:\-]?\s*(?P<list>.+)$
ReStackList ==
    ReSeq(<<ReAlt(_STACK_LEADS), ReStar(ReSpace), ReOpt(ReCls({":", "-"})), ReStar(ReSpace),
            ReGrp("list", RePlus(ReNot({"\n"}))), ReEos>>)

\* [,\|/]|(?:\s+and\s+)|(?:\s*&\s*)
ReStackSplit ==
    ReAlt(<<ReCls({",", "|", "/"}),
            ReSeq(<<RePlus(ReSpace), ReLit(<<"a","n","d">>), RePlus(ReSpace)>>),
            ReSeq(<<ReStar(ReSpace), ReCh("&"), ReStar(ReSpace)>>)>>)

\* re.split(r, text) from position p on, for a pattern without groups that
\* matches no empty string
RECURSIVE SplitFrom(_, _, _)
SplitFrom(r, cx, p) ==
    LET m == ReSearchFrom(r, cx, p) IN
    IF m.ok
    THEN <<SubSeq(cx.text, p, m.start - 1)>> \o SplitFrom(r, cx, m.end)
    ELSE <<SubSeq(cx.text, p, Len(cx.text))>>

\* _split_stack_phrase(s): the parts, stripped, the empty ones left out
_split_stack_phrase(s) ==
    LET parts == SplitFrom(ReStackSplit, [text |-> s, ic |-> TRUE], 1) IN
    SelectSeq([i \in 1..Len(parts) |-> Strip(parts[i])], LAMBDA p : p # <<>>)

\* the canonical tokens of a sequence of str tokens, those that are None
\* left out
Canons(toks) ==
    SelectSeq([i \in 1..Len(toks) |-> _canon_tech(toks[i])], LAMBDA c : Truthy(c))

\* the orders in which sorted(..., key=len, reverse=True) can list the terms
\* of M: the longer ones first; terms of the same length keep the order of
\* the set they come from, which changes from one process to the next
RECURSIVE TermOrders(_)
TermOrders(M) ==
    IF M = {} THEN {<<>>}
    ELSE LET top == {t \in M : \A u \in M : Len(u) <= Len(t)} IN
         UNION {{<<t>> \o o : o \in TermOrders(M \ {t})} : t \in top}

\* _scan_known_techs(text): the lists it can return
_scan_known_techs(text) ==
    LET low   == Lower(text)
        found == {term \in _TECH_TERMS :
                     re_search(ReSeq(<<ReBnd, ReLit(term), ReBnd>>), low, FALSE).ok}
    IN {KeepFirst(Canons(o), <<>>) : o \in TermOrders(found)}

Capitalize(s) ==
    [i \in 1..Len(s) |-> IF i = 1 THEN UpperChar(s[i]) ELSE LowerChar(s[i])]

\* the loop of lines 131-139 for one token
Prettify(c) ==
    IF c \in {<<"a","i">>, <<"m","l">>, <<"n","l","p">>, <<"c","v">>, <<"s","q","l">>, <<"a","w","s">>, <<"g","c","p">>, <<"c","i","c","d">>}
    THEN [i \in 1..Len(c) |-> UpperChar(c[i])]
    ELSE IF c = <<"d","o","t","n","e","t">> THEN <<".","N","E","T">>
    ELSE IF c = <<"c","s","h","a","r","p">> THEN <<"C","#">>
    ELSE IF c = <<"c","p","p">> THEN <<"C","+","+">>
    ELSE IF c = <<"n","o","d","e","j","s">> THEN <<"N","o","d","e",".","j","s">>
    ELSE IF c = <<"n","e","x","t","j","s">> THEN <<"N","e","x","t",".","j","s">>
    ELSE IF c = <<"n","u","x","t","j","s">> THEN <<"N","u","x","t",".","j","s">>
    ELSE Capitalize(c)

MaxTechs == 12

\* lines 114-119: the canonical tokens of the list after a lead phrase
LeadCands(m, low) ==
    IF m.ok
    THEN KeepFirst(Canons(_split_stack_phrase(Group(m, low, "list").s)), <<>>)
    ELSE <<>>

\* lines 126-140: None, or the tokens made pretty, the first twelve
StackOfCands(cand) ==
    IF cand = <<>> THEN NoneV
    ELSE ListV(SubSeq([i \in 1..Len(cand) |-> StrV(Prettify(cand[i].s))],
                      1, IF Len(cand) < MaxTechs THEN Len(cand) ELSE MaxTechs))

\* lines 121-124: the tokens found by the scan come after those of the list
StacksFrom(cand1, founds) ==
    {StackOfCands(KeepFirst(found, cand1)) : found \in founds}

StackOfLow(t, low) ==
    StacksFrom(LeadCands(re_search(ReStackList, low, TRUE), low), _scan_known_techs(t))

StackOfText(t) == StackOfLow(t, Lower(t))

\* tech_stack(text): the values the call can return
tech_stack(text) == IF text = <<>> THEN {NoneV} ELSE StackOfText(Strip(text))

\* extract_slots_from_turn(text): the slot sets the call can return; a slot
\* is set when its extractor returns a value that is truthy
WithSlot(out, k, v) == IF Truthy(v) THEN Put(out, k, v) ELSE out

extract_slots_from_turn(text) ==
    {WithSlot(WithSlot(WithSlot(WithSlot(WithSlot(EmptyDict,
         "budget", b),
         "location", loc),
         "role_title", rt),
         "seniority", sr),
         "stack", stk)
     : b \in {budget(text)}, loc \in location(text), rt \in {role_title(text)},
       sr \in {seniority(text)}, stk \in tech_stack(text)}

-----------------------------------------------------------------------------
(* Calls of the extractors: budget on phrases put together from a         *)
(* currency, one or two numbers, a unit and a period; the extraction of a *)
(* whole turn, alone and followed by the merge with the prior slot set.   *)

\* the numbers of the phrases: as written, and their value
N_6     == [s |-> <<"6">>, v |-> NumV(6)]
N_18    == [s |-> <<"1","8">>, v |-> NumV(18)]
N_20    == [s |-> <<"2","0">>, v |-> NumV(20)]
N_22    == [s |-> <<"2","2">>, v |-> NumV(22)]
N_1000  == [s |-> <<"1",",","0","0","0">>, v |-> NumV(1000)]
N_2500  == [s |-> <<"2","5","0","0">>, v |-> NumV(2500)]
N_1_5   == [s |-> <<"1",".","5">>, v |-> [t |-> "num", n |-> 15, d |-> 10]]
N_2     == [s |-> <<"2">>, v |-> NumV(2)]

\* a single value (sep is empty, hi is lo) or a range lo sep hi
PhraseValues ==
    {[lo |-> n, sep |-> <<>>, hi |-> n] : n \in {N_6, N_20, N_1000, N_1_5, N_2500}}
    \cup {[lo |-> N_18, sep |-> <<EN_DASH>>, hi |-> N_22],
          [lo |-> N_1_5, sep |-> <<"-">>, hi |-> N_2],
          [lo |-> N_22, sep |-> <<"-">>, hi |-> N_18],
          [lo |-> N_20, sep |-> <<" ","t","o"," ">>, hi |-> N_1000]}

\* the currency token, before the numbers or after them
PhraseCurrencies ==
    {[before |-> <<>>, after |-> <<>>],
     [before |-> <<"$">>, after |-> <<>>],
     [before |-> <<"r","s"," ">>, after |-> <<>>],
     [before |-> <<>>, after |-> <<"$">>]}

PhraseUnits ==
    {<<>>, <<"k">>, <<" ","k">>, <<"m">>, <<" ","l","p","a">>, <<" ","L","P","A">>, <<" ","l","a","k","h","s">>, <<" ","c","r">>, <<"c","r","o","r","e">>}

PhrasePeriods == {<<>>, <<" ","p","e","r"," ","h","r">>, <<" ","m","o","n","t","h","s">>}

BudgetPhrases ==
    {[cur |-> c, val |-> v, unit |-> u, period |-> p] :
        c \in PhraseCurrencies, v \in PhraseValues, u \in PhraseUnits, p \in PhrasePeriods}

IsSingle(ph) == ph.val.sep = <<>>

\* the phrase as text, in the order the patterns read it: a range is
\* followed by the unit and then the currency, a single value by the
\* currency and then the unit
PhraseText(ph) ==
    ph.cur.before \o ph.val.lo.s
    \o (IF IsSingle(ph)
        THEN ph.cur.after \o ph.unit
        ELSE ph.val.sep \o ph.val.hi.s \o ph.unit \o ph.cur.after)
    \o ph.period

\* the turns of tests/test_slots.py, and turns with several location hints
\* and several technologies
T_lpa_range    == <<"N","e","e","d"," ","a"," ","b","a","c","k","e","n","d"," ","d","e","v"," ","i","n"," ","P","u","n","e"," ","f","o","r"," ","1","8",EN_DASH,"2","2"," ","L","P","A">>
T_dollar_hr    == <<"O","p","e","n"," ","t","o"," ","2","0","$"," ","p","e","r"," ","h","r"," ","f","o","r"," ","r","e","m","o","t","e">>
T_duration     == <<"N","e","e","d"," ","a"," ","t","e","s","t","e","r"," ","i","n"," ","A","h","m","e","d","a","b","a","d"," ","f","o","r"," ","6"," ","m","o","n","t","h","s">>
T_remote_city  == <<"H","i","r","i","n","g"," ","d","a","t","a"," ","e","n","g","i","n","e","e","r"," ","r","e","m","o","t","e"," ","o","r"," ","i","n"," ","B","e","n","g","a","l","u","r","u">>
T_role         == <<"N","e","e","d"," ","a"," ","p","y","t","h","o","n"," ","e","n","g","i","n","e","e","r"," ","i","n"," ","A","h","m","e","d","a","b","a","d">>
T_stage        == <<"N","e","e","d"," ","a"," ","p","y","t","h","o","n"," ","e","n","g","i","n","e","e","r"," ","i","n"," ","A","h","m","e","d","a","b","a","d"," ","f","o","r"," ","1","8","-","2","2"," ","L","P","A">>
T_hybrid       == <<"s","e","n","i","o","r"," ","q","a",","," ","r","e","m","o","t","e"," ","o","r"," ","h","y","b","r","i","d">>
T_skills       == <<"s","k","i","l","l","s",":"," ","j","a","v","a",","," ","r","u","b","y"," ","a","n","d"," ","n","o","d","e",".","j","s">>

TurnSentences ==
    {T_lpa_range, T_dollar_hr, T_duration, T_remote_city, T_role, S_mid_level, T_correct,
     T_stage, T_hybrid, T_skills, <<>>}

ExtractPriors == {EmptyDict, Put(EmptyDict, "role_title", StrV(S_python_eng))}

ExtractInit ==
    /\ slots \in ExtractPriors
    /\ stage = "collect"
    /\ hist = <<"collect">>
    /\ call = NoCall
    /\ Idle
    /\ Quiet

CallBudget(ph) ==
    /\ call.op = "none"
    /\ call' = [op |-> "budget", phrase |-> ph, text |-> PhraseText(ph),
                result |-> budget(PhraseText(ph))]
    /\ UNCHANGED <<slots, stage, hist, pc, cur, seen, iters, svc>>

CallExtract(text) ==
    /\ call.op = "none"
    /\ \E out \in extract_slots_from_turn(text) :
          call' = [op |-> "extract_slots_from_turn", text |-> text, result |-> out]
    /\ UNCHANGED <<slots, stage, hist, pc, cur, seen, iters, svc>>

\* new = extract_slots_from_turn(text);
\* merged = smart_merge_slots(prev, new, user_text=text)
ExtractAndMerge(text) ==
    /\ call.op = "none"
    /\ \E new \in extract_slots_from_turn(text) :
          call' = [op |-> "extract_and_merge", text |-> text, new |-> new,
                   result |-> smart_merge_slots(DictV(slots), DictV(new), text)]
    /\ UNCHANGED <<slots, stage, hist, pc, cur, seen, iters, svc>>

\* ---- extract_slots_from_turn on any argument ----
\* The five extractors on a Python value: every one of them returns None on
\* a falsy argument (if not text: return None); on a truthy argument that is
\* not a string the first string operation of each raises (re.sub and
\* re.search a TypeError, .lower() and .strip() an AttributeError).
SlotKeys == {"budget", "location", "role_title", "seniority", "stack"}

ExtractorsOf(text) ==
    [budget     |-> {Ok(budget(text))},
     location   |-> {Ok(x) : x \in location(text)},
     role_title |-> {Ok(role_title(text))},
     seniority  |-> {Ok(seniority(text))},
     stack      |-> {Ok(x) : x \in tech_stack(text)}]

ExtractorOn(v) ==
    IF ~Truthy(v) THEN [k \in SlotKeys |-> {Ok(NoneV)}]
    ELSE IF v.t # "str" THEN [k \in SlotKeys |-> {Raised}]
    ELSE ExtractorsOf(v.s)

\* try: x = extractor(text); if x: out[k] = x / except Exception: pass
TrySlot_uncaught(acc, k, o) ==
    IF acc.raised \/ o.raised THEN Raised
    ELSE Ok(WithSlot(acc.value, k, o.value))

TrySlot(acc, k, o) ==
    IF acc.raised THEN acc
    ELSE IF o.raised THEN acc
    ELSE Ok(WithSlot(acc.value, k, o.value))

CollectSlots(parts) ==
    TrySlot(TrySlot(TrySlot(TrySlot(TrySlot(Ok(EmptyDict),
        "budget", parts["budget"]),
        "location", parts["location"]),
        "role_title", parts["role_title"]),
        "seniority", parts["seniority"]),
        "stack", parts["stack"])

RunsOf(outs) ==
    {[budget |-> b, location |-> loc, role_title |-> rt, seniority |-> sr,
      stack |-> stk] :
        b \in outs["budget"], loc \in outs["location"],
        rt \in outs["role_title"], sr \in outs["seniority"],
        stk \in outs["stack"]}

ExtractorRuns(v) == RunsOf(ExtractorOn(v))

ExtractArgs ==
    {NoneV, NumV(0), NumV(5), ListV(<<>>), ListV(<<StrV(S_qa)>>),
     TupleV(<<StrV(S_python_eng)>>), DictV(EmptyDict),
     DictV(Put(EmptyDict, "text", StrV(S_qa)))}
        \cup {StrV(t) : t \in {<<>>, T_lpa_range, T_remote_city, T_skills}}

CallExtractOn(v) ==
    /\ call.op = "none"
    /\ \E parts \in ExtractorRuns(v) :
          call' = [op |-> "extract_slots_from_turn(any)", arg |-> v,
                   parts |-> parts, result |-> CollectSlots(parts)]
    /\ UNCHANGED <<slots, stage, hist, pc, cur, seen, iters, svc>>

\* Two evaluations of extract_slots_from_turn on the same text. _LOC_HINTS
\* and the set of _scan_known_techs are Python sets of strings: their
\* iteration order follows the string hashes, which are fixed for the life
\* of one interpreter process and are seeded anew for each process
\* (PYTHONHASHSEED), so two evaluations in one process agree and two
\* processes may each take any of the orders.
ExtractTwice(text, same_process) ==
    /\ call.op = "none"
    /\ \E first \in extract_slots_from_turn(text) :
       \E second \in extract_slots_from_turn(text) :
          /\ same_process => second = first
          /\ call' = [op |-> "extract_twice", text |-> text,
                      same_process |-> same_process,
                      first |-> first, second |-> second]
    /\ UNCHANGED <<slots, stage, hist, pc, cur, seen, iters, svc>>

ExtractNext ==
    \/ \E ph \in BudgetPhrases : CallBudget(ph)
    \/ \E text \in TurnSentences : CallExtract(text)
    \/ \E text \in TurnSentences : ExtractAndMerge(text)
    \/ \E v \in ExtractArgs : CallExtractOn(v)
    \/ \E text \in TurnSentences, same_process \in BOOLEAN :
          ExtractTwice(text, same_process)

ExtractSpec == ExtractInit /\ [][ExtractNext]_vars

-----------------------------------------------------------------------------
(* The extraction rules, as the properties state them.                     *)

BudgetCall == call.op = "budget"

\* the call of budget returned a budget record
BudgetParsed == BudgetCall /\ call.result.t = "dict"

ParsedField(f) == call.result.m[f]

\* the numbers written in the phrase
WrittenMin == call.phrase.val.lo.v
WrittenMax == call.phrase.val.hi.v

NoCurrencyGiven == call.phrase.cur.before = <<>> /\ call.phrase.cur.after = <<>>

\* the phrase is a number and the duration word, without currency token,
\* magnitude unit, "/" or "per"
DurationPhrase ==
    /\ NoCurrencyGiven
    /\ call.phrase.unit = <<>>
    /\ call.phrase.period = <<" ","m","o","n","t","h","s">>

\* C19: a turn that mentions a number followed by a duration word, with no
\* currency token, no magnitude unit and no "/" or "per" marker, yields no
\* budget: the slot set extracted from "Need a tester in Ahmedabad for 6
\* months" has no budget key, and budget returns None for such a phrase.
C19_DurationIsNotBudget ==
    /\ (call.op = "extract_slots_from_turn" /\ call.text = T_duration)
          => "budget" \notin DOMAIN call.result
    /\ (BudgetCall /\ DurationPhrase) => call.result = NoneV

\* the units that the property lists as unscaled
UnscaledUnits ==
    {<<"l","p","a">>, <<"l","a","c">>, <<"l","a","k","h">>, <<"l","a","k","h","s">>, <<"c","r">>, <<"c","r","o","r","e">>}

Thousand == 1000
Million  == 1000000

C12_CorrectionYieldsNewRole ==
    (/\ call.op = "extract_and_merge"
     /\ slots = Put(EmptyDict, "role_title", StrV(S_python_eng))
     /\ call.text = T_correct)
    => /\ ~call.result.raised
       /\ Get(call.result.value, "role_title") = StrV(S_golang_eng)

\* C21: extracting from the single turn "Need a python engineer in
\* Ahmedabad for 18-22 LPA" yields role_title exactly "python engineer" and
\* location exactly "Ahmedabad", neither with the clause that follows it in
\* the sentence, together with budget min 18, max 22, unit lpa and the rupee
\* sign as currency.
C21_SingleTurnSlots ==
    (call.op = "extract_slots_from_turn" /\ call.text = T_stage)
    => /\ Get(call.result, "role_title") = StrV(S_python_eng)
       /\ Get(call.result, "location") = StrV(<<"A","h","m","e","d","a","b","a","d">>)
       /\ Get(call.result, "budget").t = "dict"
       /\ Get(call.result, "budget").m["min"] = NumV(18)
       /\ Get(call.result, "budget").m["max"] = NumV(22)
       /\ Get(call.result, "budget").m["unit"] = StrV(S_lpa)
       /\ Get(call.result, "budget").m["currency"] = StrV(<<RUPEE>>)


C23_ExtractionDeterministic ==
    call.op = "extract_twice" => call.second = call.first


-----------------------------------------------------------------------------
(* services/rewriter.py                                                    *)

\* the fixed instructions of _build_system, as one token
COPY_EDITOR == "[copy editor instructions]"

_build_system(policy, tone_hint) ==
    <<COPY_EDITOR>>
      \o (IF tone_hint # <<>> THEN <<"\n","T","o","n","e"," ","h","i","n","t",":"," ">> \o tone_hint ELSE <<>>)
      \o (IF Truthy(policy) THEN <<"\n","\n","[","P","O","L","I","C","Y"," ","E","X","C","E","R","P","T","]","\n">> \o policy.s ELSE <<>>)

RewriteUser(text) == <<"R","e","w","r","i","t","e"," ","(","d","o"," ","n","o","t"," ","c","h","a","n","g","e"," ","m","e","a","n","i","n","g",")",":","\n","-","-","-","\n">> \o text \o <<"\n","-","-","-">>

T_reply   == <<"G","o","t"," ","i","t","."," ","W","h","a","t"," ","i","s"," ","t","h","e"," ","b","u","d","g","e","t","?">>
T_padded  == <<" ","o","k"," ">>
T_polished == <<"T","h","a","n","k","s","!"," ","W","h","a","t"," ","b","u","d","g","e","t"," ","d","o"," ","y","o","u"," ","h","a","v","e"," ","i","n"," ","m","i","n","d","?">>

RewriteTexts == {<<>>, T_reply, T_padded}
RewriteTones == {<<>>, <<"c","o","n","c","i","s","e",","," ","f","r","i","e","n","d","l","y">>}
RewritePolicies == {NoneV, StrV(<<"b","e"," ","b","r","i","e","f">>)}
ApiKeys == {<<>>, <<"s","k","-","t","e","s","t">>}

\* what openai.ChatCompletion.create can hand back: a response with no
\* choice, or one choice whose message content is None or a string
LLMResponses ==
    {[choices |-> <<>>]}
      \cup {[choices |-> <<[content |-> c]>>] :
              c \in {NoneV, StrV(S_blank), StrV(T_polished), StrV(T_padded)}}

LLMErrors == {"APIError", "Timeout"}

\* _call after the response: (resp.choices[0].message["content"] or "").strip()
_call(resp) ==
    IF resp.choices = <<>> THEN Raised
    ELSE Ok(StrV(Strip(OrEmpty(resp.choices[1].content))))

\* try: return await asyncio.to_thread(_call) / except Exception: return text
AwaitThread_propagating(text, o) == o

AwaitThread(text, o) == IF o.raised THEN Ok(StrV(text)) ELSE o

RewriteInit ==
    /\ slots = EmptyDict
    /\ stage = "collect"
    /\ hist = <<"collect">>
    /\ call = NoCall
    /\ Idle
    /\ Quiet

\* rewrite(text, tone, policy) up to its await
RewriteEnter(text, tone, policy, key) ==
    /\ rw.pc = "none"
    /\ rw' = IF text = <<>> \/ key = <<>>
             THEN [pc |-> "returned", text |-> text, key |-> key,
                   thread |-> "none", llm_calls |-> 0, failed |-> FALSE,
                   outcome |-> Ok(StrV(text))]
             ELSE [pc |-> "awaiting", text |-> text, key |-> key,
                   system |-> _build_system(policy, tone),
                   user |-> RewriteUser(text),
                   thread |-> "queued", llm_calls |-> 0, failed |-> FALSE]
    /\ UNCHANGED <<slots, stage, hist, call, pc, cur, seen, iters, convs, thr, reqs, msgs, cache, clock, lock, procs, tasks>>

\* the worker thread starts _call: openai.ChatCompletion.create(...) is sent
ThreadCalls ==
    /\ rw.pc = "awaiting" /\ rw.thread = "queued"
    /\ rw' = [rw EXCEPT !.thread = "calling", !.llm_calls = @ + 1]
    /\ UNCHANGED <<slots, stage, hist, call, pc, cur, seen, iters, convs, thr, reqs, msgs, cache, clock, lock, procs, tasks>>

\* the LLM answers and _call finishes
LLMAnswers(resp) ==
    /\ rw.pc = "awaiting" /\ rw.thread = "calling"
    /\ rw' = [rw EXCEPT !.thread = "done", !.failed = _call(resp).raised]
               @@ [thread_outcome |-> _call(resp)]
    /\ UNCHANGED <<slots, stage, hist, call, pc, cur, seen, iters, convs, thr, reqs, msgs, cache, clock, lock, procs, tasks>>

\* the request fails inside the library (an API error, the library's own
\* request timeout): _call raises
LLMFails(e) ==
    /\ rw.pc = "awaiting" /\ rw.thread = "calling"
    /\ rw' = [rw EXCEPT !.thread = "done", !.failed = TRUE]
               @@ [thread_outcome |-> Raised, error |-> e]
    /\ UNCHANGED <<slots, stage, hist, call, pc, cur, seen, iters, convs, thr, reqs, msgs, cache, clock, lock, procs, tasks>>

\* the thread is done and the coroutine is resumed
RewriteResume ==
    /\ rw.pc = "awaiting" /\ rw.thread = "done"
    /\ rw' = [rw EXCEPT !.pc = "returned"]
               @@ [outcome |-> AwaitThread(rw.text, rw.thread_outcome)]
    /\ UNCHANGED <<slots, stage, hist, call, pc, cur, seen, iters, convs, thr, reqs, msgs, cache, clock, lock, procs, tasks>>

RewriteNext ==
    \/ \E text \in RewriteTexts, tone \in RewriteTones,
          policy \in RewritePolicies, key \in ApiKeys :
          RewriteEnter(text, tone, policy, key)
    \/ ThreadCalls
    \/ \E resp \in LLMResponses : LLMAnswers(resp)
    \/ \E e \in LLMErrors : LLMFails(e)
    \/ RewriteResume

RewriteSpec == RewriteInit /\ [][RewriteNext]_vars

\* The event loop and the thread pool run what is ready: the thread starts
\* its call and a finished thread resumes the coroutine. Nothing in the
\* code makes the LLM answer or bounds the wait for it, so the answer and
\* the failure of the request carry no fairness.
RewriteLiveSpec ==
    RewriteSpec /\ WF_vars(ThreadCalls) /\ WF_vars(RewriteResume)

\* C24: a call to rewrite always completes: also when the LLM call never
\* answers, rewrite returns (the input text) after a timeout.
C24_RewriteAlwaysReturns == (rw.pc = "awaiting") ~> (rw.pc = "returned")

\* C25: rewrite never raises and never loses the reply: with no API key,
\* with an empty input or when the LLM call fails it returns the input text
\* unchanged, a non-empty reply never comes back empty, and the LLM is
\* called at most once per rewrite.
C25_RewriteKeepsReply ==
    rw.pc = "returned"
    => /\ ~rw.outcome.raised
       /\ (rw.key = <<>> \/ rw.text = <<>> \/ rw.failed)
            => rw.outcome.value = StrV(rw.text)
       /\ rw.text # <<>> => Truthy(rw.outcome.value)
       /\ rw.llm_calls <= 1


-----------------------------------------------------------------------------
(* services/ask_builder.py                                                 *)

MIDDLE_DOT == "U+00B7"

Upper(s) == [i \in 1..Len(s) |-> UpperChar(s[i])]

DigitChar(d) == <<"0","1","2","3","4","5","6","7","8","9">>[d + 1]

\* the decimal digits of a natural number
RECURSIVE IntDigits(_)
IntDigits(n) == IF n < 10 THEN <<DigitChar(n)>> ELSE IntDigits(n \div 10) \o <<DigitChar(n % 10)>>

RECURSIVE StripZeros(_)
StripZeros(s) ==
    IF s # <<>> /\ s[Len(s)] = "0" THEN StripZeros(SubSeq(s, 1, Len(s) - 1)) ELSE s

\* the 6 significant digits format "g" keeps of a natural number of more
\* than 6 digits, rounded half to even
SixDigits(n, len) ==
    IF (n % PowerOfTen(len - 6)) * 2 > PowerOfTen(len - 6)
       \/ ((n % PowerOfTen(len - 6)) * 2 = PowerOfTen(len - 6)
             /\ (n \div PowerOfTen(len - 6)) % 2 = 1)
    THEN n \div PowerOfTen(len - 6) + 1
    ELSE n \div PowerOfTen(len - 6)

Mantissa(digits) ==
    IF Len(StripZeros(digits)) <= 1 THEN <<digits[1]>>
    ELSE <<digits[1], ".">> \o SubSeq(StripZeros(digits), 2, Len(StripZeros(digits)))

Exponent(e) == <<"e", "+">> \o (IF e < 10 THEN <<"0">> ELSE <<>>) \o IntDigits(e)

FmtGNat(n) ==
    IF Len(IntDigits(n)) <= 6 THEN IntDigits(n)
    ELSE IF SixDigits(n, Len(IntDigits(n))) = 1000000
    THEN <<"1">> \o Exponent(Len(IntDigits(n)))
    ELSE Mantissa(IntDigits(SixDigits(n, Len(IntDigits(n))))) \o Exponent(Len(IntDigits(n)) - 1)

\* the fraction n/d (d a power of ten, n not a multiple of ten, at most 6
\* significant digits, at least 1/1000)
FmtGFraction(n, d) ==
    IntDigits(n \div d) \o <<".">>
      \o SubSeq(IntDigits(d + (n % d)), 2, Len(IntDigits(d + (n % d))))

\* f"{x:g}" for a non-negative number
FmtG(x) ==
    CASE "d" \notin DOMAIN x -> FmtGNat(x.n)
      [] "d" \in DOMAIN x /\ x.n < 1000000 /\ x.n * 1000 >= x.d -> FmtGFraction(x.n, x.d)


RECURSIVE JoinWith(_, _)
\* sep.join(parts)
JoinWith(sep, parts) ==
    IF parts = <<>> THEN <<>>
    ELSE IF Len(parts) = 1 THEN parts[1]
    ELSE parts[1] \o sep \o JoinWith(sep, Tail(parts))

NonEmpty(parts) == SelectSeq(parts, LAMBDA p : p # <<>>)

\* the core of _fmt_budget: a range, a single value, or the raw text
BudgetCore(mn, mx, raw) ==
    IF mn # NoneV /\ mx # NoneV /\ mn # mx THEN FmtG(mn) \o <<"-">> \o FmtG(mx)
    ELSE IF mn # NoneV THEN FmtG(mn)
    ELSE Strip(OrEmpty(raw))

_fmt_budget(b) ==
    IF b.t # "dict" THEN <<>>
    ELSE Strip(JoinWith(<<" ">>, NonEmpty(<<Strip(OrEmpty(Get(b.m, "currency"))),
                                           BudgetCore(Get(b.m, "min"), Get(b.m, "max"), Get(b.m, "raw")),
                                           Upper(Lower(OrEmpty(Get(b.m, "unit"))))>>))
               \o (IF Lower(OrEmpty(Get(b.m, "period"))) # <<>>
                   THEN <<" ","p","e","r"," ">> \o Lower(OrEmpty(Get(b.m, "period"))) ELSE <<>>))

_titlecase_city(s) == IF s = <<>> THEN s ELSE <<UpperChar(s[1])>> \o Tail(s)

\* the characters of a key
KeyText(k) ==
    CASE k = "budget"        -> <<"b","u","d","g","e","t">>
      [] k = "location"      -> <<"l","o","c","a","t","i","o","n">>
      [] k = "role_title"    -> <<"r","o","l","e","_","t","i","t","l","e">>
      [] k = "seniority"     -> <<"s","e","n","i","o","r","i","t","y">>
      [] k = "stack"         -> <<"s","t","a","c","k">>
      [] k = "notice_period" -> <<"n","o","t","i","c","e","_","p","e","r","i","o","d">>

\* s.replace("_", " ")
Spaced(s) == [i \in 1..Len(s) |-> IF s[i] = "_" THEN " " ELSE s[i]]

\* The keys of a slot dictionary in the order a for loop visits them: the
\* order the keys were inserted, which for the slots of a turn is the order
\* extract_slots_from_turn writes them.
InsertionOrder == <<"budget", "location", "role_title", "seniority", "stack", "notice_period">>

ItemsOrder(d) == SelectSeq(InsertionOrder, LAMBDA k : k \in DOMAIN d)

\* the test of _delta_keys for one key of the turn
IsDelta_always(prev, turn, k) == Truthy(turn[k])

IsDelta(prev, turn, k) ==
    /\ Truthy(turn[k])
    /\ IF Get(prev, k) = NoneV THEN TRUE
       ELSE IF turn[k].t = "dict" /\ Get(prev, k).t = "dict"
       THEN \E sk \in DOMAIN turn[k].m :
               sk \notin DOMAIN prev[k].m \/ prev[k].m[sk] # turn[k].m[sk]
       ELSE prev[k] # turn[k]

_delta_keys(prev, turn) == SelectSeq(ItemsOrder(turn), LAMBDA k : IsDelta(prev, turn, k))

RECURSIVE Flat(_)
Flat(ss) == IF ss = <<>> THEN <<>> ELSE ss[1] \o Flat(Tail(ss))

\* the bits build_ack appends for a changed key: one or none
AckBit(k, v) ==
    CASE k = "budget" /\ v.t = "dict" ->
            IF _fmt_budget(v) # <<>> THEN <<<<"b","u","d","g","e","t"," ">> \o _fmt_budget(v)>> ELSE <<>>
      [] k = "location" /\ v.t = "str" -> <<<<"l","o","c","a","t","i","o","n"," ">> \o _titlecase_city(v.s)>>
      [] k = "role_title" /\ v.t = "str" -> <<Strip(v.s)>>
      [] k = "seniority" /\ v.t = "str" -> <<<<"s","e","n","i","o","r","i","t","y"," ">> \o Strip(v.s)>>
      [] k = "stack" /\ v.t = "list" ->
            <<<<"s","t","a","c","k"," ">> \o JoinWith(<<",", " ">>, [i \in 1..Len(v.l) |-> v.l[i].s])>>
      [] k = "stack" /\ v.t = "str" -> <<<<"s","t","a","c","k"," ">> \o Strip(v.s)>>
      [] k \notin {"budget", "location", "role_title", "seniority", "stack"} /\ v.t = "str" ->
            <<Spaced(KeyText(k)) \o <<" ">> \o v.s>>
      [] OTHER -> <<>>

\* the bits of the acknowledgment, each with the key it is about
AckBits(prev, turn) ==
    Flat([i \in 1..Len(_delta_keys(prev, turn)) |->
            [j \in 1..Len(AckBit(_delta_keys(prev, turn)[i], turn[_delta_keys(prev, turn)[i]])) |->
                [key |-> _delta_keys(prev, turn)[i],
                 text |-> AckBit(_delta_keys(prev, turn)[i], turn[_delta_keys(prev, turn)[i]])[j]]]])

AckOfBits(bits) ==
    IF bits = <<>> THEN <<>>
    ELSE <<"N","o","t","e","d",":"," ">> \o JoinWith(<<" ", MIDDLE_DOT, " ">>, [i \in 1..Len(bits) |-> bits[i].text]) \o <<".">>

build_ack(prev_slots, turn_slots) == AckOfBits(AckBits(prev_slots, turn_slots))

\* the clause and the chip build_reply has for a missing item
AskPart(m) ==
    CASE m = "budget"    -> <<"y","o","u","r"," ","b","u","d","g","e","t"," ","r","a","n","g","e">>
      [] m = "location"  -> <<"p","r","e","f","e","r","r","e","d"," ","l","o","c","a","t","i","o","n"," ","o","r"," ","r","e","m","o","t","e","/","h","y","b","r","i","d">>
      [] m = "seniority" -> <<"s","e","n","i","o","r","i","t","y"," ","(","e",".","g",".",","," ","j","u","n","i","o","r","/","m","i","d","/","s","e","n","i","o","r",")">>
      [] m = "stack"     -> <<"t","e","c","h"," ","s","t","a","c","k"," ","a","n","d"," ","m","u","s","t","-","h","a","v","e"," ","s","k","i","l","l","s">>
      [] OTHER           -> Spaced(KeyText(m))

AskChips_one_each(m) == <<<<"S","h","a","r","e"," ">> \o Spaced(KeyText(m))>>

AskChips(m) ==
    CASE m = "budget"    -> <<<<"S","h","a","r","e"," ","b","u","d","g","e","t">>>>
      [] m = "location"  -> <<<<"S","h","a","r","e"," ","l","o","c","a","t","i","o","n">>>>
      [] m = "seniority" -> <<<<"S","e","t"," ","s","e","n","i","o","r","i","t","y">>>>
      [] m = "stack"     -> <<<<"S","h","a","r","e"," ","t","e","c","h"," ","s","t","a","c","k">>>>
      [] OTHER           -> <<>>

Top2(missing) == SubSeq(missing, 1, IF Len(missing) < 2 THEN Len(missing) ELSE 2)

AskLine(stage_name, missing) ==
    IF missing = <<>>
    THEN CASE stage_name = "collect" -> <<"N","e","x","t",","," ","s","h","a","r","e"," ","t","h","e"," ","b","u","d","g","e","t"," ","r","a","n","g","e"," ","a","n","d"," ","l","o","c","a","t","i","o","n","/","r","e","m","o","t","e"," ","p","r","e","f","e","r","e","n","c","e",".">>
           [] stage_name = "enrich"  -> <<"G","r","e","a","t","."," ","I"," ","c","a","n"," ","d","r","a","f","t"," ","a"," ","J","D"," ","o","r"," ","s","t","a","r","t"," ","m","a","t","c","h","i","n","g",EM_DASH,"w","h","a","t"," ","w","o","u","l","d"," ","y","o","u"," ","l","i","k","e","?">>
           [] stage_name = "match"   -> <<"W","a","n","t"," ","m","e"," ","t","o"," ","s","c","h","e","d","u","l","e"," ","w","i","t","h"," ","a"," ","s","h","o","r","t","l","i","s","t","e","d"," ","c","a","n","d","i","d","a","t","e","?">>
           [] OTHER                  -> <<"A","l","l"," ","s","e","t",".">>
    ELSE <<"N","e","x","t",","," ","p","l","e","a","s","e"," ","s","h","a","r","e"," ">>
           \o JoinWith(<<" ","a","n","d"," ">>, [i \in 1..Len(Top2(missing)) |-> AskPart(Top2(missing)[i])])
           \o <<".">>

ReplyChips(stage_name, missing) ==
    IF missing = <<>>
    THEN CASE stage_name = "collect" -> <<<<"S","h","a","r","e"," ","b","u","d","g","e","t">>, <<"S","h","a","r","e"," ","l","o","c","a","t","i","o","n">>, <<"S","h","a","r","e"," ","t","e","c","h"," ","s","t","a","c","k">>>>
           [] stage_name = "enrich"  -> <<<<"D","r","a","f","t"," ","J","D">>, <<"S","t","a","r","t"," ","m","a","t","c","h","i","n","g">>, <<"A","d","d"," ","s","c","r","e","e","n","i","n","g"," ","q","u","e","s","t","i","o","n","s">>>>
           [] stage_name = "match"   -> <<<<"S","c","h","e","d","u","l","e"," ","i","n","t","e","r","v","i","e","w">>, <<"R","e","f","i","n","e"," ","m","a","t","c","h","e","s">>>>
           [] OTHER                  -> <<>>
    ELSE Flat([i \in 1..Len(Top2(missing)) |-> AskChips(Top2(missing)[i])])

\* prev_slots or {} / turn_slots or {}
OrEmptyDict(d) == IF Truthy(d) THEN d.m ELSE EmptyDict

ReplyText(ack, ask) == (IF ack # <<>> THEN ack \o <<"\n", "\n">> ELSE <<>>) \o ask

build_reply(stage_name, missing, turn_slots, prev_slots) ==
    [text |-> ReplyText(build_ack(OrEmptyDict(prev_slots), OrEmptyDict(turn_slots)),
                        AskLine(stage_name, missing)),
     chips |-> ReplyChips(stage_name, missing)]


\* ---- the calls of build_ack and build_reply ----
MaxMissing == 3

B_range  == DictV(Put(Put(Put(Put(Put(Put(EmptyDict, "currency", StrV(<<RUPEE>>)),
              "min", NumV(18)), "max", NumV(22)), "unit", StrV(S_lpa)),
              "period", StrV(<<>>)), "raw", StrV(S_raw_lpa)))
B_min    == DictV(Put(EmptyDict, "min", NumV(18)))
B_hourly == DictV(Put(Put(Put(Put(Put(Put(EmptyDict, "currency", StrV(S_usd)),
              "min", NumV(25)), "max", NumV(25)), "unit", StrV(<<>>)),
              "period", StrV(S_hour)), "raw", StrV(S_raw)))
B_million == DictV(Put(Put(EmptyDict, "min", Decimal(15, 10)), "max", NumV(6000000)))

ReplyValues(k) ==
    CASE k = "budget"        -> {B_range, B_min, B_hourly, B_million}
      [] k = "location"      -> {StrV(<<"r","e","m","o","t","e">>), StrV(S_pune)}
      [] k = "role_title"    -> {StrV(S_python_eng), StrV(S_padded_qa), StrV(S_blank)}
      [] k = "seniority"     -> {StrV(S_senior), StrV(<<>>)}
      [] k = "stack"         -> {ListV(<<StrV(S_Python), StrV(S_Go)>>), StrV(S_python), ListV(<<>>)}
      [] k = "notice_period" -> {StrV(<<"3","0"," ","d","a","y","s">>), NoneV}

ReplyKeys == {InsertionOrder[i] : i \in 1..Len(InsertionOrder)}

\* slot dictionaries of at most two keys
ReplySlotSets ==
    {EmptyDict}
      \cup {Put(EmptyDict, k, v) : k \in ReplyKeys, v \in UNION {ReplyValues(x) : x \in ReplyKeys}}
      \cup {Put(Put(EmptyDict, k1, v1), k2, v2) :
              k1 \in ReplyKeys, k2 \in ReplyKeys,
              v1 \in UNION {ReplyValues(x) : x \in ReplyKeys},
              v2 \in UNION {ReplyValues(x) : x \in ReplyKeys}}

WellTyped(d) == \A k \in DOMAIN d : d[k] \in ReplyValues(k)

AckSlotSets == {d \in ReplySlotSets : WellTyped(d)}

\* missing lists: up to MaxMissing keys, none twice, as missing_for_stage
\* and a caller's own list give them
RECURSIVE MissingLists(_)
MissingLists(n) ==
    IF n = 0 THEN {<<>>}
    ELSE MissingLists(n - 1)
           \cup {Append(l, k) : l \in {x \in MissingLists(n - 1) : Len(x) = n - 1},
                                k \in ReplyKeys}

NoRepeat(l) == \A i, j \in 1..Len(l) : l[i] = l[j] => i = j

ReplyMissing == {l \in MissingLists(MaxMissing) : NoRepeat(l)}

ReplyStages == {"collect", "enrich", "match", "close"}

ReplyPriors ==
    {NoneV, DictV(EmptyDict), DictV(Put(EmptyDict, "role_title", StrV(S_python_eng)))}

ReplyTurns ==
    {NoneV,
     DictV(Put(EmptyDict, "role_title", StrV(S_python_eng))),
     DictV(Put(Put(EmptyDict, "role_title", StrV(S_python_eng)), "budget", B_range)),
     DictV(Put(EmptyDict, "location", StrV(S_pune)))}

ReplyInit ==
    /\ slots = EmptyDict
    /\ stage = "collect"
    /\ hist = <<"collect">>
    /\ call = NoCall
    /\ Idle
    /\ Quiet

CallBuildAck(prev, turn) ==
    /\ call.op = "none"
    /\ call' = [op |-> "build_ack", prev |-> prev, turn |-> turn,
                changes |-> _delta_keys(prev, turn),
                bits |-> AckBits(prev, turn),
                result |-> build_ack(prev, turn)]
    /\ UNCHANGED <<slots, stage, hist, pc, cur, seen, iters, svc>>

CallBuildReply(stage_name, missing, turn, prev) ==
    /\ call.op = "none"
    /\ call' = [op |-> "build_reply", stage |-> stage_name, missing |-> missing,
                turn |-> turn, prev |-> prev,
                changes |-> _delta_keys(OrEmptyDict(prev), OrEmptyDict(turn)),
                ask |-> AskLine(stage_name, missing),
                result |-> build_reply(stage_name, missing, turn, prev)]
    /\ UNCHANGED <<slots, stage, hist, pc, cur, seen, iters, svc>>

ReplyNext ==
    \/ \E prev \in AckSlotSets, turn \in AckSlotSets : CallBuildAck(prev, turn)
    \/ \E stage_name \in ReplyStages, missing \in ReplyMissing,
          turn \in ReplyTurns, prev \in ReplyPriors :
          CallBuildReply(stage_name, missing, turn, prev)

ReplySpec == ReplyInit /\ [][ReplyNext]_vars


\* the items of a missing list the ask line is about: the first two
Asked(missing) == [i \in 1..(IF Len(missing) < 2 THEN Len(missing) ELSE 2) |-> missing[i]]

\* C26: with a non-empty missing list the ask line of build_reply names the
\* first min(2, len(missing)) items of the list, in order, and nothing
\* else, and the chips hold exactly one chip for each item asked, for a
\* dedicated key and for an unrecognized key alike.
C26_OneChipPerAskedItem ==
    (call.op = "build_reply" /\ call.missing # <<>>)
    => /\ call.ask = <<"N","e","x","t",","," ","p","l","e","a","s","e"," ","s","h","a","r","e"," ">>
                       \o JoinWith(<<" ","a","n","d"," ">>, [i \in 1..Len(Asked(call.missing)) |->
                                                  AskPart(Asked(call.missing)[i])])
                       \o <<".">>
       /\ Len(call.result.chips) = Len(Asked(call.missing))

\* the keys the acknowledgment of a build_ack call mentions
Mentioned == {call.bits[i].key : i \in 1..Len(call.bits)}

\* no key of the turn carries a value that is new or differs from prev
NothingChanged(prev, turn) ==
    \A k \in DOMAIN turn : ~Truthy(turn[k]) \/ (k \in DOMAIN prev /\ prev[k] = turn[k])

\* C27: the acknowledgment mentions a key only if its turn value is
\* non-empty and the key is absent from prev_slots or its value differs; a
\* key whose turn value equals the previous one is never mentioned; when no
\* key changed the acknowledgment is empty and the reply is the ask line.
C27_AckMentionsOnlyChanges ==
    /\ call.op = "build_ack"
       => /\ \A k \in Mentioned :
                /\ k \in DOMAIN call.turn /\ Truthy(call.turn[k])
                /\ k \notin DOMAIN call.prev \/ call.prev[k] # call.turn[k]
          /\ \A k \in DOMAIN call.turn \cap DOMAIN call.prev :
                call.turn[k] = call.prev[k] => k \notin Mentioned
          /\ NothingChanged(call.prev, call.turn) => call.result = <<>>
    /\ call.op = "build_reply"
       => (NothingChanged(OrEmptyDict(call.prev), OrEmptyDict(call.turn))
             => call.result.text = call.ask)

C27_Witness ==
    /\ call.op = "build_ack"
    /\ Mentioned # {}
    /\ \E k \in DOMAIN call.turn \cap DOMAIN call.prev :
          Truthy(call.turn[k]) /\ call.turn[k] = call.prev[k]


-----------------------------------------------------------------------------
(* services/memory_store.py                                                *)

MaxMessages == 3

\* uuid.uuid4().hex: an id no row has yet (the n-th id handed out)
FreshMid(rows) == Len(rows) + 1

ConvIds == {"c1", "c2"}
IdemKeys == {"k1", "k2"}

\* (role, text, meta) of a call: the two differ in each of the three
Payloads ==
    {[role |-> "user", text |-> StrV(<<"h","i">>), meta |-> NoneV],
     [role |-> "assistant", text |-> NoneV,
      meta |-> DictV(Put(EmptyDict, "source", StrV(<<"w","e","b">>)))]}

\* time.time() at the insert: not before the time of the last row
Now(rows) == IF rows = <<>> THEN {0, 1} ELSE {rows[Len(rows)].ts, rows[Len(rows)].ts + 1}

Matching_any_conversation(rows, cid, key) ==
    SelectSeq(rows, LAMBDA r : r.idempotency_key = key)

\* the rows of the loop of ingest_message that match, in the order of _MSGS
Matching(rows, cid, key) ==
    SelectSeq(rows, LAMBDA r : r.cid = cid /\ r.idempotency_key = key)

NewRow(mid, cid, p, key, ts) ==
    [mid |-> mid, cid |-> cid, role |-> p.role,
     text |-> IF Truthy(p.text) THEN p.text ELSE StrV(<<>>),
     meta |-> IF Truthy(p.meta) THEN p.meta ELSE DictV(EmptyDict),
     idempotency_key |-> key, ts |-> ts]

StoreInit ==
    /\ slots = EmptyDict
    /\ stage = "collect"
    /\ hist = <<"collect">>
    /\ call = NoCall
    /\ Idle
    /\ Quiet

ingest_message(cid, p, key) ==
    /\ IF Matching(msgs, cid, key) # <<>>
       THEN /\ msgs' = msgs
            /\ call' = [op |-> "ingest_message", cid |-> cid, payload |-> p, key |-> key,
                        before |-> msgs, result |-> Matching(msgs, cid, key)[1].mid]
       ELSE /\ Len(msgs) < MaxMessages
            /\ \E ts \in Now(msgs) :
                  msgs' = Append(msgs, NewRow(FreshMid(msgs), cid, p, key, ts))
            /\ call' = [op |-> "ingest_message", cid |-> cid, payload |-> p, key |-> key,
                        before |-> msgs, result |-> FreshMid(msgs)]
    /\ UNCHANGED <<slots, stage, hist, pc, cur, seen, iters, convs, thr, reqs, rw, cache, clock, lock, procs, tasks>>

StoreNext ==
    \E cid \in ConvIds, p \in Payloads, key \in IdemKeys : ingest_message(cid, p, key)

StoreSpec == StoreInit /\ [][StoreNext]_vars

\* the rows stored before the last call under its conversation id and key
SameKeyBefore ==
    {i \in 1..Len(call.before) :
        call.before[i].cid = call.cid /\ call.before[i].idempotency_key = call.key}

\* C28: ingest_message is idempotent by key within a conversation: a call
\* whose conversation id and idempotency key were used before returns the
\* message id stored by the first such call, stores no message and changes
\* none, whatever its role, text and metadata; a key not yet used in the
\* conversation, used in another one or not, stores a separate message.
C28_IngestIdempotent ==
    call.op = "ingest_message"
    => /\ Cardinality(SameKeyBefore) <= 1
       /\ \A i \in SameKeyBefore :
            /\ call.result = call.before[i].mid
            /\ msgs = call.before
       /\ SameKeyBefore = {}
            => /\ Len(msgs) = Len(call.before) + 1
               /\ SubSeq(msgs, 1, Len(call.before)) = call.before
               /\ msgs[Len(msgs)].cid = call.cid
               /\ msgs[Len(msgs)].idempotency_key = call.key
               /\ msgs[Len(msgs)].role = call.payload.role
               /\ call.result = msgs[Len(msgs)].mid
               /\ \A i \in 1..Len(call.before) : call.before[i].mid # call.result

\* a repeated key with another role, text and metadata, while the same key
\* is stored for the other conversation too
C28_Witness ==
    /\ call.op = "ingest_message"
    /\ \E i \in SameKeyBefore : call.before[i].role # call.payload.role
    /\ \E j \in 1..Len(msgs) : msgs[j].cid # call.cid /\ msgs[j].idempotency_key = call.key


-----------------------------------------------------------------------------
(* services/chat_instructions_loader.py, for one prompt file               *)

\* CACHE_TTL, in ticks of the clock
CACHE_TTL == 1
MaxClock == 2
MaxTasks == 1

\* the texts a fetch of the file can bring (the file may be edited)
PromptTexts == {"prompt v1", "prompt v2"}

\* the string chat_with_memory_and_gpt uses when get_prompt_for raises
GENERIC_PROMPT == "You are a helpful assistant for hiring, automation, staffing, and digital strategy. Prefer internal data; if unavailable, state assumptions and proceed."

\* file_path in _cache_text and now < _cache_expiry.get(file_path, 0)
IsFresh(c, now) == c.text # NoPrompt /\ now < c.expiry

\* file_path in _cache_text and now >= _cache_expiry.get(file_path, 0)
IsStale(c, now) == c.text # NoPrompt /\ now >= c.expiry

\* _refresh after a fetch that brought text: lines 110-114
Refreshed_old_expiry(c, text, now) == [text |-> text, expiry |-> c.expiry, lkg |-> text]

Refreshed(c, text, now) == [text |-> text, expiry |-> now + CACHE_TTL, lkg |-> text]

\* except Exception of get_prompt_for: the last-known-good text, or RuntimeError
FailSoft_always_raises(c) == Raised

FailSoft(c) == IF c.lkg # NoPrompt THEN Ok(c.lkg) ELSE Raised

\* try / except Exception of chat_with_memory_and_gpt around get_prompt_for
HandlerPrompt_uncaught(outcome) == IF outcome.raised THEN NoPrompt ELSE outcome.value

HandlerPrompt(outcome) == IF outcome.raised THEN GENERIC_PROMPT ELSE outcome.value

\* get_prompt_for ends in coroutine p with this outcome: the call is
\* recorded with what its caller, chat_with_memory_and_gpt, makes of it
Finish(p, q, outcome, path) ==
    /\ procs' = [procs EXCEPT ![p] = [pc |-> "idle"]]
    /\ call' = [op |-> "get_prompt_for", force |-> q.force,
                waited |-> q.waited, stale_at_call |-> q.stale_at_call,
                outcome |-> outcome, path |-> path,
                lkg |-> cache.lkg, prompt |-> HandlerPrompt(outcome)]

\* get_prompt_for from "async with lock" on, once the lock is acquired, up
\* to its return or to the await of the fetch (no other coroutine runs in
\* between); q holds the locals of the coroutine
InsideLock(p, q) ==
    IF ~q.force /\ IsFresh(cache, q.now)
    THEN /\ Finish(p, q, Ok(cache.text), "fresh")
         /\ UNCHANGED <<tasks, cache>>
         /\ lock' = [lock EXCEPT !.waiters = SelectSeq(lock.waiters, LAMBDA w : w # p)]
    ELSE IF ~q.force /\ IsStale(cache, q.now)
    THEN /\ tasks < MaxTasks
         /\ tasks' = tasks + 1
         /\ Finish(p, q, Ok(cache.text), "stale")
         /\ UNCHANGED cache
         /\ lock' = [lock EXCEPT !.waiters = SelectSeq(lock.waiters, LAMBDA w : w # p)]
    ELSE /\ procs' = [w \in 1..MaxCallers |->
                        IF w = p THEN [q EXCEPT !.pc = "fetching"]
                        ELSE IF procs[w].pc = "wait_lock"
                        THEN [procs[w] EXCEPT !.waited = TRUE]
                        ELSE procs[w]]
         /\ lock' = [held |-> TRUE, waiters |-> SelectSeq(lock.waiters, LAMBDA w : w # p)]
         /\ UNCHANGED <<tasks, cache, call>>

LoaderInit ==
    /\ slots = EmptyDict
    /\ stage = "collect"
    /\ hist = <<"collect">>
    /\ call = NoCall
    /\ Idle
    /\ Quiet

\* locals of a call at its start: now = time.time(), and the expired text
\* the cache held for the file at that moment, if it held one; `waited`
\* tells whether the call has waited for the lock while its holder awaited
\* a fetch
Locals(force) ==
    [pc |-> "wait_lock", force |-> force, now |-> clock, waited |-> FALSE,
     stale_at_call |-> IF IsStale(cache, clock) THEN cache.text ELSE NoPrompt]

\* get_prompt_for(label, force_refresh) is called by coroutine p
GetPrompt(p, force) ==
    /\ procs[p].pc = "idle"
    /\ IF ~force /\ IsFresh(cache, clock)
       THEN /\ Finish(p, Locals(force), Ok(cache.text), "fresh")
            /\ UNCHANGED <<lock, tasks, cache>>
       ELSE IF ~lock.held /\ lock.waiters = <<>>
       THEN InsideLock(p, Locals(force))
       ELSE /\ procs' = [procs EXCEPT ![p] = [Locals(force) EXCEPT !.waited = lock.held]]
            /\ lock' = [lock EXCEPT !.waiters = Append(@, p)]
            /\ UNCHANGED <<tasks, cache, call>>
    /\ UNCHANGED <<slots, stage, hist, pc, cur, seen, iters, convs, thr, reqs, rw, msgs, clock>>

\* the lock was released and the first waiter is resumed with it
LockGranted(p) ==
    /\ procs[p].pc = "wait_lock"
    /\ ~lock.held /\ lock.waiters # <<>> /\ Head(lock.waiters) = p
    /\ InsideLock(p, procs[p])
    /\ UNCHANGED <<slots, stage, hist, pc, cur, seen, iters, convs, thr, reqs, rw, msgs, clock>>

\* the fetch awaited inside the lock brings the text: _refresh stores it
FetchReturns(p, text) ==
    /\ procs[p].pc = "fetching"
    /\ cache' = Refreshed(cache, text, clock)
    /\ Finish(p, procs[p], Ok(text), "fetched")
    /\ lock' = [lock EXCEPT !.held = FALSE]
    /\ UNCHANGED <<slots, stage, hist, pc, cur, seen, iters, convs, thr, reqs, rw, msgs, clock, tasks>>

\* the fetch awaited inside the lock raises (no client, HTTP error, timeout)
FetchRaises(p) ==
    /\ procs[p].pc = "fetching"
    /\ Finish(p, procs[p], FailSoft(cache), "failed")
    /\ lock' = [lock EXCEPT !.held = FALSE]
    /\ UNCHANGED <<slots, stage, hist, pc, cur, seen, iters, convs, thr, reqs, rw, msgs, clock, tasks, cache>>

\* a background _refresh task ends: its fetch brought the text
TaskReturns(text) ==
    /\ tasks > 0
    /\ cache' = Refreshed(cache, text, clock)
    /\ tasks' = tasks - 1
    /\ UNCHANGED <<slots, stage, hist, call, pc, cur, seen, iters, convs, thr, reqs, rw, msgs, clock, lock, procs>>

\* a background _refresh task ends with the exception of its fetch, which
\* nothing retrieves
TaskRaises ==
    /\ tasks > 0
    /\ tasks' = tasks - 1
    /\ UNCHANGED <<slots, stage, hist, call, pc, cur, seen, iters, convs, thr, reqs, rw, msgs, clock, lock, procs, cache>>

Tick ==
    /\ clock < MaxClock
    /\ clock' = clock + 1
    /\ UNCHANGED <<slots, stage, hist, call, pc, cur, seen, iters, convs, thr, reqs, rw, msgs, lock, procs, tasks, cache>>

LoaderNext ==
    \/ \E p \in 1..MaxCallers, force \in BOOLEAN : GetPrompt(p, force)
    \/ \E p \in 1..MaxCallers : LockGranted(p)
    \/ \E p \in 1..MaxCallers, text \in PromptTexts : FetchReturns(p, text)
    \/ \E p \in 1..MaxCallers : FetchRaises(p)
    \/ \E text \in PromptTexts : TaskReturns(text)
    \/ TaskRaises
    \/ Tick

LoaderSpec == LoaderInit /\ [][LoaderNext]_vars


\* a call without force_refresh that found an expired text when it began
StaleCall(q) == ~q.force /\ q.stale_at_call # NoPrompt

\* C29: stale-while-revalidate: a call without force_refresh that finds a
\* cached text that has expired returns that text without waiting for any
\* fetch, and starts a background refresh; a refresh that succeeds leaves
\* the new text in the cache with a fresh expiry, and one that fails leaves
\* the cache as it was.
C29_StaleWhileRevalidate ==
    /\ [](\A p \in 1..MaxCallers :
            (procs[p].pc = "wait_lock" /\ StaleCall(procs[p])) => ~procs[p].waited)
    /\ []((call.op = "get_prompt_for" /\ StaleCall(call))
            => /\ ~call.waited
               /\ call.outcome = Ok(call.stale_at_call)
               /\ call.path = "stale")
    /\ [][tasks' = tasks - 1
            => \/ cache' = cache
               \/ /\ cache'.text \in PromptTexts
                  /\ cache'.lkg = cache'.text
                  /\ clock' < cache'.expiry]_vars

\* C30 as the spec states it: when the fetch fails, with or without a text
\* cached before, get_prompt_for itself returns a prompt text (the
\* last-known-good one or a generic fallback) and raises nothing.
C30_GetPromptNeverRaises ==
    (call.op = "get_prompt_for" /\ call.path = "failed")
    => /\ ~call.outcome.raised
       /\ call.outcome.value \in PromptTexts \cup {GENERIC_PROMPT}

\* C30, amended: when the fetch fails, get_prompt_for returns the
\* last-known-good text if the file was ever fetched, and raises to its
\* caller if it was not; chat_with_memory_and_gpt catches that and takes
\* the generic fallback string, so the turn has a prompt text either way.
C30_FailsSoftAtTheHandler ==
    (call.op = "get_prompt_for" /\ call.path = "failed")
    => /\ call.lkg # NoPrompt => call.outcome = Ok(call.lkg) /\ call.prompt = call.lkg
       /\ call.lkg = NoPrompt => call.outcome.raised /\ call.prompt = GENERIC_PROMPT
       /\ call.prompt \in PromptTexts \cup {GENERIC_PROMPT}

C30_Witness ==
    /\ call.op = "get_prompt_for" /\ call.path = "failed"
    /\ call.outcome.raised
    /\ call.prompt = GENERIC_PROMPT

\* a call without force_refresh that began with no text cached for the
\* file and waits for the per-file lock
ColdWaiter(q) == q.pc = "wait_lock" /\ ~q.force /\ q.stale_at_call = NoPrompt

Fetching == {p \in 1..MaxCallers : procs[p].pc = "fetching"}

\* C31: cold start fetches once: of the calls of get_prompt_for that began
\* with no text cached, one at a time holds the lock and fetches; when its
\* fetch succeeds it caches the text and returns it, and every call that
\* waited for the lock meanwhile is then served the cached text on the
\* recheck inside the lock, without a fetch or a background refresh of its
\* own.
C31_ColdStartFetchesOnce ==
    /\ [](Cardinality(Fetching) <= 1)
    /\ [][(cache.text = NoPrompt /\ cache'.text # NoPrompt)
            => /\ \E p \in Fetching :
                    /\ procs'[p].pc = "idle"
                    /\ call'.path = "fetched"
                    /\ call'.outcome = Ok(cache'.text)
               /\ \A w \in 1..MaxCallers :
                    ColdWaiter(procs[w]) => procs'[w] = procs[w]]_vars
    /\ [][\A w \in 1..MaxCallers :
            (ColdWaiter(procs[w]) /\ cache.text # NoPrompt /\ procs'[w] # procs[w])
            => /\ procs'[w].pc = "idle"
               /\ call'.path = "fresh"
               /\ call'.outcome = Ok(cache.text)
               /\ cache' = cache
               /\ tasks' = tasks]_vars

C31_Witness ==
    /\ call.op = "get_prompt_for"
    /\ ~call.force /\ call.stale_at_call = NoPrompt /\ call.waited
    /\ call.path = "fresh"
    /\ call.outcome.value \in PromptTexts

\* C32: for a slot set in which role_title, location and budget are filled
\* and seniority and stack are missing, advance_until_stable("collect",
\* slots) returns "collect".
C32_AdvanceStaysInCollect ==
    ( /\ call.op = "advance_until_stable" /\ call.stage = "collect"
      /\ Filled("role_title") /\ Filled("location") /\ Filled("budget")
      /\ ~Filled("seniority") /\ ~Filled("stack") )
    => call.result = "collect"

-----------------------------------------------------------------------------
(* services/memory_store.py: ensure_conversation, called from the          *)
(* endpoints of routers/memory_router.py. The endpoints are plain `def`    *)
(* functions, which the framework runs in threadpool threads: two requests *)
(* overlap, and a thread can be suspended between any two of its reads and *)
(* writes of the module's dicts.                                           *)

\* identifiers as the client sends them, with and without a ":"
I_e   == <<"e">>
I_ex  == <<"e",":","x">>
I_p   == <<"p">>
I_xp  == <<"x",":","p">>
I_t   == <<"t">>
I_u   == <<"u">>

\* (entity_id, platform, thread_id)
Triples ==
    {<<I_e, I_p, I_t>>, <<I_e, I_p, I_u>>, <<I_ex, I_p, I_t>>, <<I_e, I_xp, I_t>>}

\* f"{entity_id}:{platform}:{thread_id}"
_conv_key(tr) == tr[1] \o <<":">> \o tr[2] \o <<":">> \o tr[3]

\* the conversation ids that a record or a thread holds
UsedCids ==
    {convs[k].cid : k \in DOMAIN convs}
      \cup {thr[t].cid : t \in {u \in 1..MaxThreads : thr[u].pc = "creating"}}
      \cup {thr[t].result : t \in {u \in 1..MaxThreads : thr[u].pc = "done"}}

\* uuid.uuid4().hex: an id that nothing holds
FreshCid == CHOOSE n \in 1..(Cardinality(UsedCids) + 1) : n \notin UsedCids

ConvInit ==
    /\ slots = EmptyDict
    /\ stage = "collect"
    /\ hist = <<"collect">>
    /\ call = NoCall
    /\ Idle
    /\ Quiet

\* a thread is free to serve a request
Free(t) == thr[t].pc \in {"idle", "done"}

\* ensure_conversation lines 17-21 in thread t: the lookup of the key, the
\* return of the id found, or the making of a new id
EnsureLookup(t, tr) ==
    /\ Free(t)
    /\ IF _conv_key(tr) \in DOMAIN convs
       THEN thr' = [thr EXCEPT ![t] = [pc |-> "done", op |-> "ensure_conversation",
                                       triple |-> tr, created |-> FALSE,
                                       result |-> convs[_conv_key(tr)].cid]]
       ELSE thr' = [thr EXCEPT ![t] = [pc |-> "creating", triple |-> tr,
                                       cid |-> FreshCid]]
    /\ UNCHANGED <<slots, stage, hist, call, pc, cur, seen, iters, rw, msgs, cache,
                   clock, lock, procs, tasks, convs, reqs>>

\* ensure_conversation lines 22-23 in thread t: the record is stored under
\* the key, over whatever the key holds by then
EnsureStore(t) ==
    /\ thr[t].pc = "creating"
    /\ convs' = Put(convs, _conv_key(thr[t].triple),
                    [cid |-> thr[t].cid, entity_id |-> thr[t].triple[1],
                     platform |-> thr[t].triple[2], thread_id |-> thr[t].triple[3]])
    /\ thr' = [thr EXCEPT ![t] = [pc |-> "done", op |-> "ensure_conversation",
                                  triple |-> thr[t].triple, created |-> TRUE,
                                  result |-> thr[t].cid]]
    /\ UNCHANGED <<slots, stage, hist, call, pc, cur, seen, iters, rw, msgs, cache,
                   clock, lock, procs, tasks, reqs>>

ConvNext ==
    \/ \E t \in 1..MaxThreads, tr \in Triples : EnsureLookup(t, tr)
    \/ \E t \in 1..MaxThreads : EnsureStore(t)

ConvSpec == ConvInit /\ [][ConvNext]_vars

\* the threads whose last call of ensure_conversation has returned
Ensured == {t \in 1..MaxThreads : thr[t].pc = "done" /\ thr[t].op = "ensure_conversation"}

\* C33: ensure_conversation is create-or-get: the calls with the same
\* (entity_id, platform, thread_id) return the same conversation id, also
\* when two calls for the same new triple overlap in time, and the store
\* holds at most one conversation record for a triple.
C33_EnsureIsCreateOrGet ==
    /\ \A t \in Ensured, u \in Ensured :
          thr[t].triple = thr[u].triple => thr[t].result = thr[u].result
    /\ \A tr \in Triples :
          Cardinality({k \in DOMAIN convs :
                          <<convs[k].entity_id, convs[k].platform, convs[k].thread_id>> = tr}) <= 1

\* C37: two different (entity_id, platform, thread_id) triples never share
\* a conversation: ensure_conversation returns different conversation ids
\* for them, also when an identifier contains the ":" character.
C37_TriplesDoNotShare ==
    \A t \in Ensured, u \in Ensured :
        thr[t].triple # thr[u].triple => thr[t].result # thr[u].result

-----------------------------------------------------------------------------
(* smart_merge_slots and the filled slots.                                 *)

\* the slot set the last merge was given as `existing` (None: no slot)
ExistingSlots == IF call.existing.t = "dict" THEN call.existing.m ELSE EmptyDict

\* C34: smart_merge_slots never unfills a slot: for every existing slot
\* set, every incoming slot set and every turn text, each key that is
\* filled in existing is still filled in the slot set the call returns.
C34_MergeNeverUnfills ==
    (call.op = "smart_merge_slots" /\ ~call.result.raised)
    => \A k \in DOMAIN ExistingSlots :
          _is_filled(k, ExistingSlots) => _is_filled(k, call.result.value)

MergedKeys == {"budget", "location", "seniority", "stack", "role_title"}

\* C35: smart_merge_slots only ever writes the five keys budget, location,
\* seniority, stack, role_title: every other key of existing is returned
\* with its value unchanged, and a key of incoming outside the five is
\* never copied into the result.
C35_MergeWritesFiveKeys ==
    (call.op = "smart_merge_slots" /\ ~call.result.raised)
    => /\ \A k \in DOMAIN ExistingSlots \ MergedKeys :
            /\ k \in DOMAIN call.result.value
            /\ call.result.value[k] = ExistingSlots[k]
       /\ \A k \in DOMAIN call.result.value \ MergedKeys : k \in DOMAIN ExistingSlots

\* a merge of two slot sets that hold other keys, one of them in both
C35_Witness ==
    /\ call.op = "smart_merge_slots" /\ ~call.result.raised
    /\ "notes" \in DOMAIN call.new /\ "seniority" \in DOMAIN call.new
    /\ Get(ExistingSlots, "employment_type") = StrV(S_contract)
    /\ Get(call.new, "employment_type") = StrV(S_permanent)
    /\ Get(call.result.value, "seniority") = StrV(S_senior)
    /\ Get(call.result.value, "employment_type") = StrV(S_contract)

-----------------------------------------------------------------------------
(* services/memory_store.py: ingest_message in the threads of the          *)
(* messages.ingest endpoint. The loop over _MSGS.items() is followed row   *)
(* by row: another thread can insert between two rows, and between the end *)
(* of the loop and the insert of line 32.                                  *)

\* the message ids that a row or a thread holds
UsedMids ==
    {msgs[i].mid : i \in 1..Len(msgs)}
      \cup {thr[t].mid : t \in {u \in 1..MaxThreads : thr[u].pc = "insert"}}

\* uuid.uuid4().hex: an id that nothing holds
FreshMidAmong(used) == CHOOSE n \in 1..(Cardinality(used) + 1) : n \notin used

\* (role, text, meta) of the requests
IngestPayload == CHOOSE p \in Payloads : p.role = "user"

IngestInit ==
    /\ slots = EmptyDict
    /\ stage = "collect"
    /\ hist = <<"collect">>
    /\ call = NoCall
    /\ Idle
    /\ Quiet

Returned(t, outcome) ==
    [pc |-> "done", op |-> "ingest_message", cid |-> thr[t].cid, key |-> thr[t].key,
     result |-> outcome]

\* line 28 in thread t: _MSGS.items() and the iterator of the for loop,
\* which remembers the size of the dict
IngestBegin(t, cid, key) ==
    /\ Free(t)
    /\ Len(msgs) + Cardinality({u \in 1..MaxThreads : ~Free(u)}) < MaxMessages
    /\ thr' = [thr EXCEPT ![t] = [pc |-> "scan", cid |-> cid, key |-> key,
                                  i |-> 1, used |-> Len(msgs)]]
    /\ UNCHANGED <<slots, stage, hist, call, pc, cur, seen, iters, rw, msgs, cache,
                   clock, lock, procs, tasks, convs, reqs>>

\* lines 28-31 in thread t: the iterator is asked for the next row. It
\* raises RuntimeError when the dict has changed size since the loop began;
\* a row that matches ends the call with its id; after the last row the
\* new id is made
ScanRow(t) ==
    /\ thr[t].pc = "scan"
    /\ thr' = [thr EXCEPT ![t] =
          IF Len(msgs) # thr[t].used THEN Returned(t, Raised)
          ELSE IF thr[t].i > Len(msgs)
          THEN [pc |-> "insert", cid |-> thr[t].cid, key |-> thr[t].key,
                mid |-> FreshMidAmong(UsedMids)]
          ELSE IF msgs[thr[t].i].cid = thr[t].cid
                  /\ msgs[thr[t].i].idempotency_key = thr[t].key
          THEN Returned(t, Ok(msgs[thr[t].i].mid))
          ELSE [thr[t] EXCEPT !.i = @ + 1]]
    /\ UNCHANGED <<slots, stage, hist, call, pc, cur, seen, iters, rw, msgs, cache,
                   clock, lock, procs, tasks, convs, reqs>>

\* lines 32-36 in thread t: the row is stored and its id returned
InsertRow(t) ==
    /\ thr[t].pc = "insert"
    /\ \E ts \in Now(msgs) :
          msgs' = Append(msgs, NewRow(thr[t].mid, thr[t].cid, IngestPayload, thr[t].key, ts))
    /\ thr' = [thr EXCEPT ![t] = Returned(t, Ok(thr[t].mid))]
    /\ UNCHANGED <<slots, stage, hist, call, pc, cur, seen, iters, rw, cache,
                   clock, lock, procs, tasks, convs, reqs>>

IngestNext ==
    \/ \E t \in 1..MaxThreads, cid \in ConvIds, key \in IdemKeys : IngestBegin(t, cid, key)
    \/ \E t \in 1..MaxThreads : ScanRow(t)
    \/ \E t \in 1..MaxThreads : InsertRow(t)

IngestSpec == IngestInit /\ [][IngestNext]_vars

\* the threads whose last call of ingest_message has ended
Ingested == {t \in 1..MaxThreads : thr[t].pc = "done" /\ thr[t].op = "ingest_message"}

\* C36: under concurrent requests, two overlapping ingest_message calls
\* with the same conversation id and the same idempotency key store
\* exactly one message and both return its id: no interleaving leaves two
\* stored messages for one (conversation, key) pair or makes a call fail.
C36_ConcurrentIngestIdempotent ==
    /\ \A i \in 1..Len(msgs), j \in 1..Len(msgs) :
          (msgs[i].cid = msgs[j].cid /\ msgs[i].idempotency_key = msgs[j].idempotency_key)
             => i = j
    /\ \A t \in Ingested : ~thr[t].result.raised
    /\ \A t \in Ingested, u \in Ingested :
          (thr[t].cid = thr[u].cid /\ thr[t].key = thr[u].key)
             => thr[t].result = thr[u].result

-----------------------------------------------------------------------------
(* The order of min and max in a budget.                                   *)

\* denominator of a number of the model (1 for a whole number)
DenOf(x) == IF "d" \in DOMAIN x THEN x.d ELSE 1

\* x <= y for two numbers
NumLeq(x, y) == x.n * DenOf(y) <= y.n * DenOf(x)

\* C38: every budget returned by the extractor has min <= max, whatever
\* order the two numbers of a range are written in.
C38_BudgetMinAtMostMax ==
    BudgetParsed => NumLeq(ParsedField("min"), ParsedField("max"))

-----------------------------------------------------------------------------
(* services/request_scope.py: the requests of a thread and its active one. *)

\* bound: requests begun
MaxRequests == 2

ThreadIds == {"t1", "t2"}

\* an rid that names no request
UnknownRid == 0

\* _mkid(): an id no request has (requests are never deleted)
FreshRid == Cardinality(DOMAIN reqs.requests) + 1

ScopeInit ==
    /\ slots = EmptyDict
    /\ stage = "collect"
    /\ hist = <<"collect">>
    /\ call = NoCall
    /\ Idle
    /\ Quiet

\* begin_request lines 37-45: the state it leaves
Begun(cid, thread_id, seed_slots) ==
    [requests |-> Put(reqs.requests, FreshRid,
                      [rid |-> FreshRid, cid |-> cid, thread_id |-> thread_id,
                       slots |-> OrEmptyDict(seed_slots), stage |-> "collect",
                       title |-> NoneV]),
     index    |-> Put(reqs.index, thread_id,
                      Append(IF thread_id \in DOMAIN reqs.index
                             THEN reqs.index[thread_id] ELSE <<>>, FreshRid)),
     active   |-> Put(reqs.active, thread_id, FreshRid)]

begin_request(cid, thread_id, seed_slots) ==
    /\ FreshRid <= MaxRequests
    /\ reqs' = Begun(cid, thread_id, seed_slots)
    /\ call' = [op |-> "begin_request", thread_id |-> thread_id, result |-> FreshRid]
    /\ UNCHANGED <<slots, stage, hist, pc, cur, seen, iters, rw, msgs, cache,
                   clock, lock, procs, tasks, convs, thr>>

\* lines 57-60: the active rid of the thread when it names a stored
\* request, else a new request
ensure_active_request(cid, thread_id, seed_slots) ==
    /\ IF thread_id \in DOMAIN reqs.active /\ reqs.active[thread_id] # UnknownRid
          /\ reqs.active[thread_id] \in DOMAIN reqs.requests
       THEN /\ reqs' = reqs
            /\ call' = [op |-> "ensure_active_request", thread_id |-> thread_id,
                        result |-> reqs.active[thread_id]]
       ELSE /\ FreshRid <= MaxRequests
            /\ reqs' = Begun(cid, thread_id, seed_slots)
            /\ call' = [op |-> "ensure_active_request", thread_id |-> thread_id,
                        result |-> FreshRid]
    /\ UNCHANGED <<slots, stage, hist, pc, cur, seen, iters, rw, msgs, cache,
                   clock, lock, procs, tasks, convs, thr>>

\* lines 49-54: stage and title of a stored request (None: left as it is)
update_request(rid, new_stage, new_title) ==
    /\ reqs' = IF rid \in DOMAIN reqs.requests
               THEN [reqs EXCEPT !.requests[rid] =
                        [@ EXCEPT !.stage = IF new_stage = NoneV THEN @ ELSE new_stage.s,
                                  !.title = IF new_title = NoneV THEN @ ELSE new_title]]
               ELSE reqs
    /\ call' = [op |-> "update_request", rid |-> rid]
    /\ UNCHANGED <<slots, stage, hist, pc, cur, seen, iters, rw, msgs, cache,
                   clock, lock, procs, tasks, convs, thr>>

\* line 31
set_active_rid(thread_id, rid) ==
    /\ reqs' = [reqs EXCEPT !.active = Put(@, thread_id, rid)]
    /\ call' = [op |-> "set_active_rid", thread_id |-> thread_id, rid |-> rid]
    /\ UNCHANGED <<slots, stage, hist, pc, cur, seen, iters, rw, msgs, cache,
                   clock, lock, procs, tasks, convs, thr>>

SeedSlots == {NoneV, DictV(Put(EmptyDict, "role_title", StrV(S_python_eng)))}

\* the conversation of the requests
ScopeCid == "c1"

ScopeNext ==
    \/ \E t \in ThreadIds, seed \in SeedSlots : begin_request(ScopeCid, t, seed)
    \/ \E t \in ThreadIds, seed \in SeedSlots : ensure_active_request(ScopeCid, t, seed)
    \/ \E rid \in DOMAIN reqs.requests \cup {UnknownRid},
          st \in {NoneV, StrV("enrich")}, ti \in {NoneV} :
          update_request(rid, st, ti)
    \/ \E t \in ThreadIds, rid \in DOMAIN reqs.requests : set_active_rid(t, rid)

ScopeSpec == ScopeInit /\ [][ScopeNext]_vars

\* C39: after any sequence of begin_request, ensure_active_request,
\* update_request and set_active_rid calls, the active request id of a
\* thread, when there is one, names a stored request that belongs to that
\* thread (it is listed in the thread's index and its thread_id is that
\* thread), so ensure_active_request never hands a thread a request of
\* another thread.
C39_ActiveRequestBelongsToThread ==
    /\ \A t \in DOMAIN reqs.active :
          /\ reqs.active[t] \in DOMAIN reqs.requests
          /\ reqs.requests[reqs.active[t]].thread_id = t
          /\ t \in DOMAIN reqs.index
          /\ reqs.active[t] \in Range(reqs.index[t])
    /\ call.op = "ensure_active_request"
          => reqs.requests[call.result].thread_id = call.thread_id

====
